---- MODULE Spec2Model ----
(***************************************************************************)
(* Model of the breakout identification pipeline of                        *)
(* src/src/data-processing/quality_breakouts.py.                           *)
(*                                                                         *)
(* Conventions.                                                            *)
(*  - A date is an integer day number, day 0 being CONFIG['min_date']      *)
(*    (1990-01-01); (a - b).days is a - b.                                 *)
(*  - Prices and volumes are integers.  Every comparison the code makes on *)
(*    floats is made here on exact fractions, by cross-multiplication.     *)
(*  - A Series (DataFrame) is a sequence of rows; df.iloc[i] is            *)
(*    iloc(df, i), with the 0-based positions of the code.  A rolling mean *)
(*    over n closes is stored as the rolling SUM (n times the mean), NaN   *)
(*    as NaN == -1 (closes are positive in every validated Series).        *)
(*  - Python's None is the empty sequence; an Optional value is a sequence *)
(*    of length 0 or 1.                                                    *)
(***************************************************************************)
EXTENDS Integers, Sequences, FiniteSets, TLC

VARIABLES
    pc,                  \* position in process_ticker / write_json / selector
    ticker,              \* the ticker being processed (its data file's description)
    df,                  \* process_ticker's local df (None before/without a load)
    data_cache,          \* _data_cache: ticker -> Series
    df_columns,          \* columns identify_quality_breakouts added to df
    breakout_candidates, \* identify_quality_breakouts: indices that passed the scan
    cand_pos,            \* position of the loop "for i in breakout_candidates"
    details,             \* evaluate_candidate's result for the candidate (Optional)
    all_valid_breakouts, \* identify_quality_breakouts: validated episodes so far
    stats,               \* identify_quality_breakouts: per-ticker counters
    last_pb,             \* outcome of the latest process_breakout call (Optional)
    disk,                \* the dataset directory: [dirs, files]
    scored_breakouts,    \* output of score_breakouts
    setups,              \* output of select_with_spacing
    ret,                 \* process_ticker's return value (Optional)
    wj,                  \* the write_json call in progress (record), see WJ section
    run,                 \* main() and process_tickers: position, lists and STATS
    dl,                  \* download.py: the StockDataDownloader and process_all
    verbosity,           \* CONFIG['verbosity']
    log,                 \* number of records handed to the logger
    io_env,              \* the behaviours the file system may show on a call
    outcomes,            \* what earlier runs on the same ticker file produced
    mv,                  \* the find_big_move call in progress (record)
    gi                   \* the generate_indicators call in progress (record)

vars == <<pc, ticker, df, data_cache, df_columns, breakout_candidates, cand_pos,
          details, all_valid_breakouts, stats, last_pb, disk, scored_breakouts, setups, ret,
          wj, run, dl, verbosity, log, io_env, outcomes, mv, gi>>

None == <<>>
NaN == -1

(***************************************************************************)
(* CONFIG (quality_breakouts.py:49-70).  Fractions are in the unit given.  *)
(***************************************************************************)
min_daily_range_pct == 3        \* percent
spacing_days == 20
min_days_from_high == 14
max_days_from_high == 60
min_uptrend_days == 15
min_daily_uptrend_pct == 70     \* hundredths of a percent per day (0.7)
max_consolidation_drop == 30    \* hundredths (0.30)
exception_threshold == 35       \* hundredths (0.35)
max_exception_days == 2
min_pullback_pct == 4           \* hundredths (0.04)
min_pullback_days == 1
max_pullback_days == 15
max_lookback_days == 90
min_big_move_pct == 35          \* percent
max_big_move_pct == 100         \* percent
min_date == 0                   \* day number of 1990-01-01

(***************************************************************************)
(* Series helpers (pandas idioms used by the code).                        *)
(***************************************************************************)
iloc(d, i) == d[i + 1]

\* the set of the elements of a sequence
Range(s) == {s[k] : k \in 1..Len(s)}

Min2(a, b) == IF a < b THEN a ELSE b
Max2(a, b) == IF a > b THEN a ELSE b
Abs(a) == IF a < 0 THEN -a ELSE a

\* d.iloc[lo:hi+1][col].sum()
RECURSIVE SumCol(_, _, _, _)
SumCol(d, col, lo, hi) ==
    IF lo > hi THEN 0
    ELSE IF lo = hi THEN iloc(d, lo)[col]
    ELSE LET mid == (lo + hi) \div 2
         IN  SumCol(d, col, lo, mid) + SumCol(d, col, mid + 1, hi)

\* d.iloc[lo:hi+1][col].max() and .min()
RECURSIVE MaxCol(_, _, _, _)
MaxCol(d, col, lo, hi) ==
    IF lo >= hi THEN iloc(d, lo)[col]
    ELSE LET mid == (lo + hi) \div 2
         IN  Max2(MaxCol(d, col, lo, mid), MaxCol(d, col, mid + 1, hi))

RECURSIVE MinCol(_, _, _, _)
MinCol(d, col, lo, hi) ==
    IF lo >= hi THEN iloc(d, lo)[col]
    ELSE LET mid == (lo + hi) \div 2
         IN  Min2(MinCol(d, col, lo, mid), MinCol(d, col, mid + 1, hi))

\* position of d.iloc[lo:hi+1][col].idxmax() / .idxmin(): the FIRST extreme row
IdxMax(d, col, lo, hi) ==
    LET m == MaxCol(d, col, lo, hi)
    IN  CHOOSE k \in lo..hi : /\ iloc(d, k)[col] = m
                              /\ \A j \in lo..(k - 1) : iloc(d, j)[col] # m

IdxMin(d, col, lo, hi) ==
    LET m == MinCol(d, col, lo, hi)
    IN  CHOOSE k \in lo..hi : /\ iloc(d, k)[col] = m
                              /\ \A j \in lo..(k - 1) : iloc(d, j)[col] # m

IsGreen(r) == r.close > r.open

\* ((d.iloc[lo:hi+1]['close'] > d.iloc[lo:hi+1]['open']).sum()
GreenCount(d, lo, hi) == Cardinality({k \in lo..hi : IsGreen(iloc(d, k))})

\* df.index.get_loc(date): position of the row carrying that date
get_loc(d, date) == CHOOSE k \in 0..(Len(d) - 1) : iloc(d, k).date = date


(***************************************************************************)
(* The data files.  A ticker is the description of one data/<ticker>.json  *)
(* file; RawData(t) is the list of rows json.load returns for it.          *)
(*   kind "pattern": a flat base, a 20-bar advance to `top` ending C bars  *)
(*     before bar 260, a 3-bar dip, a drift to `pre`, a wide-range         *)
(*     high-volume bar at 260 (and a second one at bar i2 when i2 > 0), a  *)
(*     run to `peak` and a fade.  nlow bars after the top carry a low of   *)
(*     `lowto`; the bar after bar 260 has a low of `postlow` when that is  *)
(*     positive.                                                           *)
(*   kind "flat": blocks of 25 bars of which `greens` close above their    *)
(*     open.                                                               *)
(*   npre rows dated before min_date (all closing above their open) are    *)
(*   put in front; swap >= 0 exchanges rows swap and swap+1; dup >= 0      *)
(*   gives row dup the date of row dup-1; ninv rows (every tenth) are made *)
(*   invalid, in turn by a negative volume, a high under the close, a low  *)
(*   over the open and a price of zero.                                    *)
(***************************************************************************)
MaxLowSpikes == 3
FlatLen == 150

BaseTicker ==
    [kind |-> "pattern", len |-> 345, C |-> 14, top |-> 1600, dipto |-> 1480,
     pre |-> 1490, brk |-> 80, peak |-> 1600, bvol |-> 30, bwick |-> 5,
     i2 |-> 0, nlow |-> 0, lowto |-> 1100, greens |-> 12, npre |-> 0,
     swap |-> -1, dup |-> -1, ninv |-> 0, postlow |-> 0]

FlatTicker == [BaseTicker EXCEPT !.kind = "flat", !.len = FlatLen]

PatternTickers ==
    {[BaseTicker EXCEPT !.C = c, !.i2 = j] : c \in {12, 14, 20}, j \in {0, 269, 270}}
    \cup {[BaseTicker EXCEPT !.peak = 2300, !.i2 = j] : j \in {0, 270}}
    \cup {[BaseTicker EXCEPT !.peak = 1700, !.i2 = 270]}
    \cup {[BaseTicker EXCEPT !.nlow = MaxLowSpikes, !.i2 = j] : j \in {0, 270}}
    \cup {[BaseTicker EXCEPT !.bvol = 22], [BaseTicker EXCEPT !.bwick = 40]}
    \cup {[BaseTicker EXCEPT !.postlow = 1400],
          [BaseTicker EXCEPT !.postlow = 1400, !.dipto = 1570, !.pre = 1575]}

FlatTickers ==
    {[FlatTicker EXCEPT !.greens = g, !.npre = n] : g \in {12, 22, 23}, n \in {0, 50}}
    \cup {[FlatTicker EXCEPT !.swap = 40], [FlatTicker EXCEPT !.dup = 40],
          [FlatTicker EXCEPT !.len = 125], [FlatTicker EXCEPT !.len = 126, !.dup = 3],
          [FlatTicker EXCEPT !.len = 260], [FlatTicker EXCEPT !.len = 260, !.greens = 22],
          [FlatTicker EXCEPT !.len = 0],
          [FlatTicker EXCEPT !.ninv = 7], [FlatTicker EXCEPT !.ninv = 8],
          [FlatTicker EXCEPT !.len = 260, !.ninv = 13]}

Tickers == PatternTickers \cup FlatTickers

\* piecewise-linear interpolation between the knots <<bar, price>>
Level(knots, k) ==
    LET i == CHOOSE j \in 1..(Len(knots) - 1) : knots[j][1] <= k /\ k <= knots[j + 1][1]
        k0 == knots[i][1]
        p0 == knots[i][2]
        k1 == knots[i + 1][1]
        p1 == knots[i + 1][2]
    IN  p0 + ((p1 - p0) * (k - k0)) \div (k1 - k0)

PatternKnots(t) ==
    LET i == 260
        h == i - t.C
        a == h - 20
    IN  <<  <<0, 1000>>, <<a, 1000>>, <<h, t.top>>, <<h + 3, t.dipto>>,
            <<i - 1, t.pre>>, <<i, t.pre + t.brk>> >>
        \o (IF t.i2 > 0
            THEN << <<t.i2 - 1, t.pre + t.brk + 5>>, <<t.i2, t.pre + 2 * t.brk + 5>>,
                    <<t.i2 + 12, t.peak>>, <<t.len - 1, 1200>> >>
            ELSE << <<i + 12, t.peak>>, <<t.len - 1, 1200>> >>)

PatternClose(knots, k) ==
    IF k < 0 THEN 1000 ELSE Level(knots, k) + (IF k % 2 = 1 THEN 5 ELSE -5)

PatternRows(t) ==
    LET knots == PatternKnots(t)
        h == 260 - t.C
    IN  [k1 \in 1..t.len |->
            LET k == k1 - 1
                c == PatternClose(knots, k)
                o == PatternClose(knots, k - 1)
                isb == k = 260 \/ k = t.i2
            IN  [date |-> k, open |-> o,
                 high |-> Max2(o, c) + (IF isb THEN t.bwick ELSE 5),
                 low |-> IF h < k /\ k <= h + t.nlow THEN t.lowto
                         ELSE IF k = 261 /\ t.postlow > 0 THEN t.postlow
                         ELSE Min2(o, c) - 5,
                 close |-> c,
                 volume |-> IF isb THEN t.bvol ELSE 10 + (k % 2)]]

FlatClose(t, k) ==
    LET g == t.greens
        down == IF g < 25 THEN (10 * g) \div (25 - g) ELSE 0
        drift == 10 * g - down * (25 - g)
        j == k % 25
    IN  IF k < 0 THEN 1000
        ELSE 1000 + (k \div 25) * drift + 10 * Min2(j + 1, g) - down * Max2(0, j + 1 - g)

FlatRows(t) ==
    [k1 \in 1..t.len |->
        LET k == k1 - 1
            c == FlatClose(t, k)
            o == FlatClose(t, k - 1)
        IN  [date |-> k, open |-> o, high |-> Max2(o, c) + 5, low |-> Min2(o, c) - 5,
             close |-> c, volume |-> 10 + (k % 2)]]

\* row r made invalid in the j-th way
Spoiled(r, j) ==
    CASE j % 4 = 1 -> [r EXCEPT !.volume = -1]
      [] j % 4 = 2 -> [r EXCEPT !.high = r.close - 1]
      [] j % 4 = 3 -> [r EXCEPT !.low = r.open + 1]
      [] OTHER -> [r EXCEPT !.open = 0, !.low = 0]

SpoilRows(rows, n) ==
    [k \in 1..Len(rows) |->
        IF k % 10 = 0 /\ k \div 10 <= n THEN Spoiled(rows[k], k \div 10) ELSE rows[k]]

RawData(t) ==
    LET body == IF t.kind = "pattern" THEN PatternRows(t) ELSE FlatRows(t)
        prefix == [k1 \in 1..t.npre |->
                     [date |-> k1 - 1 - t.npre, open |-> 1000, high |-> 1015,
                      low |-> 995, close |-> 1010, volume |-> 10]]
        rows == prefix \o body
        swapped == IF t.swap >= 0
                   THEN [rows EXCEPT ![t.swap + 1] = rows[t.swap + 2],
                                     ![t.swap + 2] = rows[t.swap + 1]]
                   ELSE rows
        dated == IF t.dup >= 0
                 THEN [swapped EXCEPT ![t.dup + 1].date = swapped[t.dup].date]
                 ELSE swapped
    IN  SpoilRows(dated, t.ninv)

(***************************************************************************)
(* read_stock_data (quality_breakouts.py:77-215).                          *)
(***************************************************************************)
\* InvalidRow without the volume test of line 149
InvalidRowPricesOnly(r) ==
    \/ r.high < r.low
    \/ r.high < r.close
    \/ r.high < r.open
    \/ r.low > r.close
    \/ r.low > r.open
    \/ r.open <= 0 \/ r.high <= 0 \/ r.low <= 0 \/ r.close <= 0

\* lines 143-151: the bar breaks low <= {open, close} <= high, or has a
\* negative volume or a non-positive price
InvalidRow(r) ==
    \/ r.high < r.low
    \/ r.high < r.close
    \/ r.high < r.open
    \/ r.low > r.close
    \/ r.low > r.open
    \/ r.volume < 0
    \/ r.open <= 0 \/ r.high <= 0 \/ r.low <= 0 \/ r.close <= 0

\* TooManyGreen with the threshold at 0.95: a loader that lets a 92% series in
TooManyGreen95(rows) ==
    Len(rows) > 0 /\ 100 * GreenCount(rows, 0, Len(rows) - 1) > 95 * Len(rows)

\* lines 161-162: (df['close'] > df['open']).sum() / len(df) > 0.9
TooManyGreen(rows) ==
    Len(rows) > 0 /\ 10 * GreenCount(rows, 0, Len(rows) - 1) > 9 * Len(rows)

\* lines 168-170: df[~df.index.duplicated(keep='first')]
DropDuplicates(rows) ==
    LET keep == {k \in 1..Len(rows) : \A j \in 1..(k - 1) : rows[j].date # rows[k].date}
        marked == [k \in 1..Len(rows) |-> [row |-> rows[k], keep |-> k \in keep]]
        kept == SelectSeq(marked, LAMBDA m : m.keep)
    IN  [k \in 1..Len(kept) |-> kept[k].row]

\* lines 177-179: df['close'].rolling(n).mean(), stored as the rolling sum
RollingSum(rows, k, n) ==
    IF k + 1 < n THEN NaN ELSE SumCol(rows, "close", k - n + 1, k)

WithSMAs(rows) ==
    [k1 \in 1..Len(rows) |->
        [date |-> rows[k1].date, open |-> rows[k1].open, high |-> rows[k1].high,
         low |-> rows[k1].low, close |-> rows[k1].close, volume |-> rows[k1].volume,
         sma10 |-> RollingSum(rows, k1 - 1, 10),
         sma20 |-> RollingSum(rows, k1 - 1, 20),
         sma50 |-> RollingSum(rows, k1 - 1, 50)]]

\* lines 183-184: (df['close'].pct_change().abs() > 0.5).any()
ExtremeMove(rows) ==
    \E k \in 1..(Len(rows) - 1) :
        2 * Abs(iloc(rows, k).close - iloc(rows, k - 1).close) > iloc(rows, k - 1).close

\* lines 190-191: more than 10% of the closes repeat the close before
TooManyUnchanged(rows) ==
    10 * Cardinality({k \in 1..(Len(rows) - 1) :
                        iloc(rows, k).close = iloc(rows, k - 1).close}) > Len(rows)

\* lines 197-200: volume.std() / volume.mean() > 10, i.e. with n rows, sum S and
\* sum of squares Q: n*(n*Q - S*S) > 100*(n-1)*S*S.  The right-hand side is
\* divided by n in two steps to stay within TLC's integers.
RECURSIVE SumSqVolume(_, _, _)
SumSqVolume(rows, lo, hi) ==
    IF lo > hi THEN 0
    ELSE IF lo = hi THEN iloc(rows, lo).volume * iloc(rows, lo).volume
    ELSE LET mid == (lo + hi) \div 2
         IN  SumSqVolume(rows, lo, mid) + SumSqVolume(rows, mid + 1, hi)

UnrealisticVolume(rows) ==
    LET n == Len(rows)
        S == SumCol(rows, "volume", 0, n - 1)
        Q == SumSqVolume(rows, 0, n - 1)
        b == 100 * (n - 1)
        a == S * S
        rhsFloor == (a \div n) * b + ((a % n) * b) \div n
    IN  /\ n > 20
        /\ S > 0
        /\ n * Q - a > rhsFloor

\* lines 220-222
check_data_quality(d) == d # None /\ Len(d) >= 126

\* line 136: df[df.index >= min_date]
AfterMinDate(data) == SelectSeq(data, LAMBDA r : r.date >= min_date)

\* line 157: df[~invalid_rows]
ValidRows(rows) == SelectSeq(rows, LAMBDA r : ~InvalidRow(r))

\* lines 90-215, from the loaded JSON list to the returned DataFrame (or None)
LoadSeries(data) ==
    IF data = <<>> THEN None
    ELSE IF \A k \in 1..Len(data) : data[k].date < min_date THEN None
    ELSE
    LET df1 == AfterMinDate(data)
    IN  IF Len(df1) < 126 THEN None
        ELSE
        LET invalid_count == Cardinality({k \in 1..Len(df1) : InvalidRow(df1[k])})
        IN  IF invalid_count > 0 /\ 100 * invalid_count > 5 * Len(df1) THEN None
            ELSE
            LET df2 == ValidRows(df1)
            IN  IF TooManyGreen(df2) THEN None
                ELSE
                LET df3 == DropDuplicates(df2)
                IN  IF Len(df3) < 126 THEN None
                    ELSE
                    LET df4 == WithSMAs(df3)
                    IN  IF ExtremeMove(df4) THEN None
                        ELSE IF TooManyUnchanged(df4) THEN None
                        ELSE IF UnrealisticVolume(df4) THEN None
                        ELSE IF check_data_quality(df4) THEN df4
                        ELSE None


(***************************************************************************)
(* Small pure functions of the pipeline.                                   *)
(***************************************************************************)
\* find_first_cross_below_sma without the slice data.iloc[focus_idx+1:]: the
\* first close below the average anywhere in the series
first_cross_below_sma_unsliced(d, focus_idx) ==
    LET cross == {k \in 0..(Len(d) - 1) :
                     /\ iloc(d, k).sma20 # NaN
                     /\ 20 * iloc(d, k).close < iloc(d, k).sma20}
    IN  IF cross # {} THEN CHOOSE k \in cross : \A j \in cross : k <= j
        ELSE Len(d) - 1

\* lines 694-702; the SMA column holds 20 times the mean, a NaN compares False
find_first_cross_below_sma(d, focus_idx) ==
    IF focus_idx + 1 >= Len(d) THEN Len(d) - 1
    ELSE LET cross == {k \in (focus_idx + 1)..(Len(d) - 1) :
                          /\ iloc(d, k).sma20 # NaN
                          /\ 20 * iloc(d, k).close < iloc(d, k).sma20}
         IN  IF cross # {} THEN CHOOSE k \in cross : \A j \in cross : k <= j
             ELSE Len(d) - 1

\* determine_performance_category with < for the <= of lines 455, 457, 459
performance_category_strict(d, breakout_idx, cross_idx0) ==
    LET cross_idx == IF cross_idx0 >= Len(d) THEN Len(d) - 1 ELSE cross_idx0
        breakout_price == iloc(d, breakout_idx).open
        diff == iloc(d, cross_idx).close - breakout_price
    IN  IF 200 * diff < -5 * breakout_price THEN 1
        ELSE IF 100 * diff < 10 * breakout_price THEN 2
        ELSE IF 100 * diff < 35 * breakout_price THEN 3
        ELSE 4

\* lines 446-461; performance_pct = (cross_close - breakout_open) / breakout_open * 100
determine_performance_category(d, breakout_idx, cross_idx0) ==
    LET cross_idx == IF cross_idx0 >= Len(d) THEN Len(d) - 1 ELSE cross_idx0
        breakout_price == iloc(d, breakout_idx).open
        cross_close_price == iloc(d, cross_idx).close
        diff == cross_close_price - breakout_price
    IN  IF 200 * diff <= -5 * breakout_price THEN 1        \* <= -2.5
        ELSE IF 100 * diff <= 10 * breakout_price THEN 2   \* <= 10
        ELSE IF 100 * diff <= 35 * breakout_price THEN 3   \* <= 35
        ELSE 4

\* lines 1052-1054
check_pattern_quality(d, start_idx, end_idx) == end_idx - start_idx >= 4

\* lines 1056-1066 (max_drop = max_consolidation_drop) and 1068-1085 (relaxed);
\* drop_pct = (high_price - cons_low) / high_price <= max_drop (hundredths)
PriceWithinRange(d, high_idx, breakout_idx, max_drop) ==
    IF high_idx >= breakout_idx THEN FALSE
    ELSE LET high_price == iloc(d, high_idx).high
             cons_low == MinCol(d, "low", high_idx, breakout_idx)
         IN  100 * (high_price - cons_low) <= max_drop * high_price

check_price_within_range(d, high_idx, breakout_idx) ==
    PriceWithinRange(d, high_idx, breakout_idx, max_consolidation_drop)

check_price_within_range_relaxed(d, high_idx, breakout_idx, max_drop) ==
    PriceWithinRange(d, high_idx, breakout_idx, max_drop)

\* lines 1322-1374: (result, position of the low (Optional), pullback_pct), the
\* pullback_pct (high_price - low_price) / high_price kept as <<numerator, denominator>>
check_orderly_pullback(d, high_idx) ==
    LET end_idx == Min2(high_idx + max_pullback_days + 1, Len(d))
    IN  IF high_idx + min_pullback_days >= end_idx
        THEN [result |-> FALSE, low |-> None, pullback_pct |-> <<0, 1>>]
        ELSE LET lo == high_idx + min_pullback_days
                 hi == end_idx - 1
                 high_price == iloc(d, high_idx).high
                 low_price == MinCol(d, "low", lo, hi)
             IN  [result |-> 100 * (high_price - low_price) >= min_pullback_pct * high_price,
                  low |-> <<IdxMin(d, "low", lo, hi)>>,
                  pullback_pct |-> <<high_price - low_price, high_price>>]

\* lines 1376-1381, on rows lo..hi of d (an empty range passes)
check_candle_distribution(rows) ==
    \/ Len(rows) = 0
    \/ 10 * GreenCount(rows, 0, Len(rows) - 1) <= 9 * Len(rows)

(***************************************************************************)
(* find_big_move (lines 734-1050), called with min_days =                  *)
(* CONFIG['min_uptrend_days'] and min_daily_pct =                          *)
(* CONFIG['min_daily_uptrend_pct'].  Positions s, h are positions in df;   *)
(* the code's window-relative position is s - start_idx.                   *)
(***************************************************************************)
\* lines 855-903: the segment window.iloc[i:high_loc+1], s and h its end rows
ValidSegment(d, s, h, min_days, min_daily_pct) ==
    LET seglen == h - s + 1
        start_price == iloc(d, s).close
        end_price == iloc(d, h).high
        gain == end_price - start_price          \* total_pct = gain / start_price * 100
        days == Max2(1, iloc(d, h).date - iloc(d, s).date)
        price_increases ==
            Cardinality({k \in (s + 1)..h : iloc(d, k).close > iloc(d, k - 1).close})
        volsum == SumCol(d, "volume", s, h)
        high_volume_days ==
            Cardinality({k \in s..h : 10 * seglen * iloc(d, k).volume > 12 * volsum})
        consistent_uptrend == seglen > 1 /\ 10 * price_increases >= 4 * (seglen - 1)
        not_just_spike ==
            /\ gain > 0
            /\ seglen > 1
            /\ \A k \in (s + 1)..h :
                  10 * (iloc(d, k).high - iloc(d, k - 1).high) * start_price
                      <= 6 * gain * iloc(d, k - 1).high
        decent_volume == 4 * high_volume_days >= seglen
        total_gain_ok == /\ min_big_move_pct * start_price <= 100 * gain
                         /\ 100 * gain <= max_big_move_pct * start_price
        avg_daily_ok == 100000 * gain >= 8 * min_daily_pct * start_price * days
        days_ok == min_days <= days /\ days <= 90
        quality_ok == \/ consistent_uptrend
                      \/ not_just_spike
                      \/ decent_volume
    IN  total_gain_ok /\ avg_daily_ok /\ days_ok /\ quality_ok

NotFound == [found |-> FALSE, start |-> -1, high |-> -1, gain |-> 0, base |-> 1]

\* lines 769-792: window position of the high, the last three bars set aside
\* when the high is among them
HighLoc(d, start_idx, end_idx) ==
    LET wlen == end_idx - start_idx + 1
        high_loc0 == IdxMax(d, "high", start_idx, end_idx) - start_idx
    IN  IF high_loc0 >= wlen - 3 /\ wlen - 3 > 0
        THEN IdxMax(d, "high", start_idx, end_idx - 3) - start_idx
        ELSE high_loc0

\* the loop of lines 854-947 keeping the valid segment of the largest gain (the
\* lowest starting close) in place of the first one
BestValidIdx(d, start_idx, high_loc, min_days, min_daily_pct) ==
    LET Valid(i) == /\ high_loc - i + 1 >= min_days
                    /\ ValidSegment(d, start_idx + i, start_idx + high_loc,
                                    min_days, min_daily_pct)
        valid == {i \in 0..(high_loc - 1) : Valid(i)}
    IN  IF valid = {} THEN None
        ELSE <<CHOOSE i \in valid :
                 \A j \in valid : \/ iloc(d, start_idx + j).close > iloc(d, start_idx + i).close
                                  \/ /\ iloc(d, start_idx + j).close
                                           = iloc(d, start_idx + i).close
                                     /\ j >= i>>

\* lines 854-947: the first i of check_indices whose segment is valid (Optional)
FirstValidIdx(d, start_idx, high_loc, min_days, min_daily_pct) ==
    LET Valid(i) == /\ high_loc - i + 1 >= min_days
                    /\ ValidSegment(d, start_idx + i, start_idx + high_loc,
                                    min_days, min_daily_pct)
    IN  IF \E i \in 0..(high_loc - 1) : Valid(i)
        THEN <<CHOOSE i \in 0..(high_loc - 1) : Valid(i) /\ \A j \in 0..(i - 1) : ~Valid(j)>>
        ELSE None

\* lines 950-980: the start finally reported, a local minimum after the first
\* valid point when one leaves min_days to the high
MoveStart(d, start_idx, high_loc, first_valid_idx, search_end, min_loc, min_days) ==
    IF /\ search_end > first_valid_idx
       /\ min_loc < high_loc - min_days
       /\ Max2(1, iloc(d, start_idx + high_loc).date - iloc(d, start_idx + min_loc).date)
             >= min_days
    THEN start_idx + min_loc
    ELSE start_idx + first_valid_idx

BigMoveFrom(d, start_idx, high_loc, first_valid, min_days) ==
    IF first_valid = None THEN NotFound
    ELSE [found |-> TRUE,
          start |-> MoveStart(d, start_idx, high_loc, first_valid[1],
                       Min2(first_valid[1] + 20, high_loc - min_days),
                       IdxMin(d, "low", start_idx + first_valid[1],
                              start_idx + Min2(first_valid[1] + 20, high_loc - min_days))
                           - start_idx,
                       min_days),
          high |-> start_idx + high_loc,
          \* valid_total_pct = gain / base * 100, of the first valid segment
          gain |-> iloc(d, start_idx + high_loc).high
                       - iloc(d, start_idx + first_valid[1]).close,
          base |-> iloc(d, start_idx + first_valid[1]).close]

BigMoveInWindow(d, start_idx, high_loc, min_days, min_daily_pct) ==
    IF high_loc <= 3 THEN NotFound
    ELSE BigMoveFrom(d, start_idx, high_loc,
                     FirstValidIdx(d, start_idx, high_loc, min_days, min_daily_pct),
                     min_days)

find_big_move(d, end_idx, min_days, min_daily_pct) ==
    IF end_idx - Max2(0, end_idx - max_lookback_days) + 1 < min_days THEN NotFound
    ELSE BigMoveInWindow(d, Max2(0, end_idx - max_lookback_days),
                         HighLoc(d, Max2(0, end_idx - max_lookback_days), end_idx),
                         min_days, min_daily_pct)

(***************************************************************************)
(* evaluate_candidate (lines 1157-1320).  The result is                    *)
(* [ok |-> FALSE, reason |-> the stats key fail() increments] or           *)
(* [ok |-> TRUE, ...the returned dict...].                                 *)
(***************************************************************************)
Fail(reason_key) == [ok |-> FALSE, reason |-> reason_key]

\* lines 1247-1293: the moving averages rise and price "surfs" them
SurfingRisingMAs(d, high_point_idx, idx) ==
    LET a == iloc(d, high_point_idx)
        b == iloc(d, idx)
        \* "if sma_start and sma_end and sma_end <= sma_start * 0.98"
        Falls(s0, s1) == s0 # NaN /\ s0 # 0 /\ s1 # NaN /\ s1 # 0 /\ 100 * s1 <= 98 * s0
        mas_rising == ~Falls(a.sma10, b.sma10) /\ ~Falls(a.sma20, b.sma20)
        seglen == idx - high_point_idx + 1
        \* low <= sma * 1.02 and close >= sma * 0.98, the column holding n * sma
        Near(r, sum, n) == /\ sum # NaN /\ sum # 0
                           /\ 100 * n * r.low <= 102 * sum
                           /\ 100 * n * r.close >= 98 * sum
        touches_ma == Cardinality({k \in high_point_idx..idx :
                          LET r == iloc(d, k)
                          IN  \/ Near(r, r.sma10, 10)
                              \/ Near(r, r.sma20, 20)
                              \/ Near(r, r.sma50, 50)})
        price_surfing == seglen >= 5 /\ 10 * touches_ma >= 4 * seglen
    IN  mas_rising /\ price_surfing

\* the duplicate test of lines 1296-1300 with a spacing of 3 days whatever
\* CONFIG['spacing_days'] is
IsDuplicateWithin3(existing_breakouts, focus_date) ==
    \E k \in 1..Len(existing_breakouts) :
        Abs(existing_breakouts[k].breakout_date - focus_date) < 3

\* lines 1295-1300: another validated breakout within max(3, spacing_days // 2) days
IsDuplicate(existing_breakouts, focus_date) ==
    LET min_spacing_days == Max2(3, spacing_days \div 2)
    IN  \E k \in 1..Len(existing_breakouts) :
            Abs(existing_breakouts[k].breakout_date - focus_date) < min_spacing_days

\* lines 1207-1320: the checks that follow find_big_move
EvaluateMove(d, idx, existing_breakouts, move, pullback) ==
    LET focus_date == iloc(d, idx).date
        high_point_idx == move.high
        days_from_high == focus_date - iloc(d, high_point_idx).date
        relaxed_drop == Min2(max_consolidation_drop + 5, 50)
        within_range ==
            \/ check_price_within_range(d, high_point_idx, idx)
            \/ check_price_within_range_relaxed(d, high_point_idx, idx, relaxed_drop)
        duplicate == IsDuplicate(existing_breakouts, focus_date)
    IN  IF ~move.found THEN Fail("big_move_filter")
        ELSE IF days_from_high < min_days_from_high THEN Fail("time_filter")
        ELSE IF days_from_high > max_days_from_high THEN Fail("time_filter")
        ELSE IF ~within_range THEN Fail("price_range_filter")
        ELSE IF ~check_pattern_quality(d, high_point_idx, idx)
            THEN Fail("pattern_quality_filter")
        ELSE IF ~pullback.result \/ pullback.low = None THEN Fail("pullback_filter")
        ELSE IF idx >= 50 /\ idx > high_point_idx
                /\ ~SurfingRisingMAs(d, high_point_idx, idx)
            THEN Fail("pattern_quality_filter")
        ELSE IF duplicate THEN Fail("duplicate_filter")
        ELSE [ok |-> TRUE,
              focus_date |-> focus_date,
              move_start_date |-> iloc(d, move.start).date,
              high_date |-> iloc(d, high_point_idx).date,
              low_date |-> iloc(d, pullback.low[1]).date,
              category |-> determine_performance_category(
                               d, idx, find_first_cross_below_sma(d, idx)),
              cross_idx |-> find_first_cross_below_sma(d, idx)]

\* check_orderly_pullback is called at line 1241, after find_big_move succeeded
PullbackOf(d, move) ==
    IF move.found THEN check_orderly_pullback(d, move.high)
    ELSE [result |-> FALSE, low |-> None, pullback_pct |-> <<0, 1>>]

EvaluateWithMove(d, idx, existing_breakouts, move) ==
    EvaluateMove(d, idx, existing_breakouts, move, PullbackOf(d, move))

evaluate_candidate(d, idx, existing_breakouts) ==
    LET window_start == Max2(0, idx - 20)
        green_too_high ==
            100 * GreenCount(d, window_start, idx) > 85 * (idx - window_start + 1)
        prev_high == iloc(d, idx - 1).high
        current_high == iloc(d, idx).high
        c0 == iloc(d, idx - 9).close
        c1 == iloc(d, idx).close
    IN  IF green_too_high THEN Fail("green_candle_filter")
        ELSE IF idx > 0 /\ prev_high # 0 /\ 1000 * current_high <= 1005 * prev_high
            THEN Fail("initial_filter")
        ELSE IF idx >= 10 /\ 100 * (c1 - c0) < 3 * c0 THEN Fail("initial_filter")
        ELSE EvaluateWithMove(d, idx, existing_breakouts,
                 find_big_move(d, idx, min_uptrend_days, min_daily_uptrend_pct))

(***************************************************************************)
(* identify_quality_breakouts, the scan (lines 1862-1919).                 *)
(***************************************************************************)
\* the scan with any rise of the volume over the previous bar's in place of
\* the factor 2.0
PassesScanAnyVolumeRise(d, i) ==
    LET r == iloc(d, i)
        p == iloc(d, i - 1)
        lo == Max2(0, i - 20)
    IN  /\ r.high > p.high
        /\ r.close > p.high
        /\ r.volume > p.volume
        /\ 2 * (i - lo) * r.volume > 3 * SumCol(d, "volume", lo, i - 1)
        /\ 100 * (r.high - r.low) >= min_daily_range_pct * r.open
        /\ \/ (r.sma20 # NaN /\ r.sma20 > 0 /\ 100 * 20 * r.close > 101 * r.sma20)
           \/ (r.sma50 # NaN /\ r.sma50 > 0 /\ 100 * 50 * r.close > 101 * r.sma50)

\* lines 1878-1892 and 1916: bar i passes the scan
PassesScan(d, i) ==
    LET r == iloc(d, i)
        p == iloc(d, i - 1)
        higher_high == r.high > p.high
        close_above_prev_high == r.close > p.high
        lo == Max2(0, i - 20)
        n == i - lo
        volume_increase == /\ r.volume > 2 * p.volume
                           /\ 2 * n * r.volume > 3 * SumCol(d, "volume", lo, i - 1)
        daily_range_sufficient == 100 * (r.high - r.low) >= min_daily_range_pct * r.open
        price_above_mas ==
            \/ (r.sma20 # NaN /\ r.sma20 > 0 /\ 100 * 20 * r.close > 101 * r.sma20)
            \/ (r.sma50 # NaN /\ r.sma50 > 0 /\ 100 * 50 * r.close > 101 * r.sma50)
    IN  /\ higher_high
        /\ close_above_prev_high
        /\ volume_increase
        /\ daily_range_sufficient
        /\ price_above_mas

\* lines 1863-1864: range(252, max(252, len(df) - 63))
valid_indices(d) == 252..(Max2(252, Len(d) - 63) - 1)

\* lines 1874-1919 in one pass: the candidate list, in increasing order
ScanCandidates(d) ==
    LET hit == {i \in valid_indices(d) : i > 0 /\ i < Len(d) - 1 /\ PassesScan(d, i)}
        idxs == [k \in 1..(Max2(252, Len(d) - 63) - 252) |-> 251 + k]
    IN  SelectSeq(idxs, LAMBDA i : i \in hit)


(***************************************************************************)
(* The output tree.  A directory ds/<dataset>/<TICKER>_<date_str> is named *)
(* by the formatted breakout date (one ticker per run of process_ticker).  *)
(* A file is [dir, name, date, state]: name is "D.json", "after.json",     *)
(* "points.json" or "{date}.json", the last with the formatted peak date   *)
(* in `date'; state is "valid" (complete JSON of at least 10 bytes) or     *)
(* "partial".                                                              *)
(***************************************************************************)
EmptyDisk == [dirs |-> {}, files |-> {}]

DaysTo1990 == 7305      \* days from 1970-01-01 to day 0 (1990-01-01)

\* the proleptic Gregorian calendar date <<year, month, day>> of a day number
CivilFromDays(date) ==
    LET z == date + DaysTo1990 + 719468
        era == z \div 146097
        doe == z - era * 146097
        yoe == (doe - doe \div 1460 + doe \div 36524 - doe \div 146096) \div 365
        doy == doe - (365 * yoe + yoe \div 4 - yoe \div 100)
        mp == (5 * doy + 2) \div 153
        day == doy - (153 * mp + 2) \div 5 + 1
        month == IF mp < 10 THEN mp + 3 ELSE mp - 9
        year == yoe + era * 400 + (IF month <= 2 THEN 1 ELSE 0)
    IN  <<year, month, day>>

month_abbr ==
    <<"Jan", "Feb", "Mar", "Apr", "May", "Jun", "Jul", "Aug", "Sep", "Oct", "Nov", "Dec">>

\* lines 236-238: f"{calendar.month_abbr[ts.month]}_{ts.day}_{ts.year}"
format_date(ts) ==
    LET ymd == CivilFromDays(ts)
    IN  <<month_abbr[ymd[2]], ymd[3], ymd[1]>>

MakeDir(dsk, dir) == [dsk EXCEPT !.dirs = @ \cup {dir}]

\* what one write_json call (lines 244-442) leaves at dir/name and returns:
\* "ok" = True and a verified file; "absent" = False and no file;
\* "partial" = False and an incomplete file (the direct write of 393-408)
WriteOutcomes == {"ok", "absent", "partial"}

FileName(name) == [name |-> name, date |-> None]

SuccessFileName(success_date_str) == [name |-> "{date}.json", date |-> success_date_str]

ApplyWrite(dsk, dir, fname, outcome) ==
    LET others == {f \in dsk.files :
                      ~(f.dir = dir /\ f.name = fname.name /\ f.date = fname.date)}
    IN  IF outcome = "absent" THEN [dsk EXCEPT !.files = others]
        ELSE [dsk EXCEPT !.files = others \cup
                 {[dir |-> dir, name |-> fname.name, date |-> fname.date,
                   state |-> IF outcome = "ok" THEN "valid" ELSE "partial"]}]

\* lines 666-679; the caller ignores the Boolean it returns
create_files(dsk, dir, outcome) == 
    ApplyWrite(MakeDir(dsk, dir), dir, FileName("points.json"), outcome)

(***************************************************************************)
(* process_breakout (lines 1383-1796).                                     *)
(***************************************************************************)
NoNull(r) == r.sma10 # NaN /\ r.sma20 # NaN /\ r.sma50 # NaN

\* data.iloc[lo:hi+1]
Slice(d, lo, hi) == SubSeq(d, lo + 1, Min2(hi, Len(d) - 1) + 1)

\* lines 1424-1432 and 1564-1572: dropna() when any value is null
DropNa(rows) == SelectSeq(rows, NoNull)

\* lines 704-732: <<is_successful, position of the peak (Optional)>>
check_successful_breakout(d, breakout_idx, cross_idx0) ==
    IF breakout_idx >= Len(d) \/ breakout_idx < 0 THEN <<FALSE, None>>
    ELSE
    LET breakout_open == iloc(d, breakout_idx).open
        breakout_date == iloc(d, breakout_idx).date
        cross_idx == IF cross_idx0 >= Len(d) THEN Len(d) - 1 ELSE cross_idx0
        max_days == 70
        dates_after == {k \in 0..(Len(d) - 1) :
                           /\ iloc(d, k).date > breakout_date
                           /\ iloc(d, k).date - breakout_date <= max_days}
    IN  IF dates_after = {} THEN <<FALSE, None>>
        ELSE
        LET max_idx == CHOOSE k \in dates_after : \A j \in dates_after : j <= k
            end_idx == Min2(cross_idx, max_idx)
        IN  IF end_idx < breakout_idx THEN <<FALSE, None>>
            ELSE LET highest_price == MaxCol(d, "high", breakout_idx, end_idx)
                 IN  <<10 * (highest_price - breakout_open) >= 3 * breakout_open,
                       <<IdxMax(d, "high", breakout_idx, end_idx)>> >>

\* lines 1416-1544: the checks made on d_data before anything is written
DDataOk(raw_d) ==
    LET d_data == DropNa(raw_d)
        n == Len(d_data)
        start_price == d_data[1].close
        end_price == d_data[n].close
        recent_highs == IF n >= 6 THEN MaxCol(d_data, "high", n - 6, n - 2)
                        ELSE MaxCol(d_data, "high", 0, n - 2)
        breakout_high == d_data[n].high
    IN  /\ (raw_d # d_data => n > 0)
        /\ check_candle_distribution(d_data)
        /\ (n >= 10 => 100 * (end_price - start_price) >= 7 * start_price)
        /\ (n >= 2 => 100 * breakout_high > 101 * recent_highs)

\* lines 1546-1558: the rows of after.json before dropna
AfterRows(d, focus_idx, end_idx) ==
    LET after_start_idx == focus_idx + 1
        min_after_days == 15
        e0 == Max2(Min2(Len(d) - 1, after_start_idx + min_after_days), end_idx)
        after_end_idx == IF e0 - after_start_idx < min_after_days
                         THEN Min2(Len(d) - 1, after_start_idx + min_after_days)
                         ELSE e0
    IN  Slice(d, after_start_idx, after_end_idx)

\* lines 1563-1604
AfterDataOk(raw_after) ==
    LET after_data == DropNa(raw_after)
    IN  /\ (raw_after # after_data => Len(after_data) > 0)
        /\ check_candle_distribution(after_data)

\* lines 1678-1750: the checks made after D.json and after.json are written
PostWriteOk(d, focus_idx) ==
    LET r == iloc(d, focus_idx)
        lo10 == Max2(0, focus_idx - 10)
        lo30 == Max2(0, focus_idx - 30)
        s10 == SumCol(d, "volume", lo10, focus_idx - 1)
        s30 == SumCol(d, "volume", lo30, focus_idx - 1)
        \* volume_surge < 2.0, the surge being 0 when the average is not positive
        Weak(sum, n) == sum <= 0 \/ n * r.volume < 2 * sum
        volume_ok == focus_idx > 0 =>
                        ~(Weak(s10, focus_idx - lo10) /\ Weak(s30, focus_idx - lo30))
        strong_close == 100 * (r.high - r.close) <= 2 * r.high
        above_mas == ~(/\ r.sma10 # NaN /\ r.sma10 # 0 /\ 1000 * r.close <= 101 * r.sma10
                       /\ r.sma20 # NaN /\ r.sma20 # 0 /\ 2000 * r.close <= 101 * r.sma20)
    IN  volume_ok /\ strong_close /\ above_mas

\* Everything process_breakout computes from the data alone: the outcome of
\* its checks, what it would write and the dict it would return
BreakoutPlan(d, focus_idx, low_idx, cons_start_idx) ==
    LET focus_date == iloc(d, focus_idx).date
        cross_idx == find_first_cross_below_sma(d, focus_idx)
        end_idx == Min2(Len(d) - 1, cross_idx + 3)
        succ == check_successful_breakout(d, focus_idx, cross_idx)
        success_data == Slice(d, focus_idx, end_idx)
        pullback == check_orderly_pullback(d, cons_start_idx)
    IN  [pre_ok |-> /\ DDataOk(Slice(d, low_idx, focus_idx))
                    /\ AfterDataOk(AfterRows(d, focus_idx, end_idx)),
         post_ok |-> PostWriteOk(d, focus_idx),
         directory |-> format_date(focus_date),
         success_file |->
             IF /\ succ[1] /\ succ[2] # None
                /\ DropNa(success_data) = success_data
                /\ check_candle_distribution(success_data)
             THEN <<format_date(iloc(d, succ[2][1]).date)>>
             ELSE None,
         breakout_data |->
             [breakout_date |-> focus_date,
              low_date |-> iloc(d, low_idx).date,
              high_date |-> iloc(d, cons_start_idx).date,
              category |-> determine_performance_category(d, focus_idx, cross_idx),
              cross_idx |-> cross_idx,
              pullback_pct |-> pullback.pullback_pct,
              output_path |-> format_date(focus_date)]]

\* The I/O of one call: does mkdir succeed, and the outcome of each write_json
IOChoices ==
    [mkdir : BOOLEAN, points : WriteOutcomes, D : WriteOutcomes,
     after : WriteOutcomes, success : WriteOutcomes]

\* The control flow of process_breakout over a plan: result is None or
\* <<the returned dict>>, disk is the tree the call leaves behind
process_breakout(plan, io, dsk) ==
    LET directory == plan.directory
        disk1 == create_files(MakeDir(dsk, directory), directory, io.points)
        disk2 == ApplyWrite(disk1, directory, FileName("D.json"), io.D)
        disk3 == ApplyWrite(disk2, directory, FileName("after.json"), io.after)
        disk4 == IF plan.success_file # None
                 THEN ApplyWrite(disk3, directory, SuccessFileName(plan.success_file[1]),
                                 io.success)
                 ELSE disk3
    IN  IF ~plan.pre_ok THEN [result |-> None, disk |-> dsk]
        ELSE IF ~io.mkdir THEN [result |-> None, disk |-> dsk]
        ELSE IF io.D # "ok" THEN [result |-> None, disk |-> disk2]
        ELSE IF io.after # "ok" THEN [result |-> None, disk |-> disk3]
        ELSE IF ~plan.post_ok THEN [result |-> None, disk |-> disk3]
        ELSE [result |-> <<plan.breakout_data>>, disk |-> disk4]

(***************************************************************************)
(* score_breakouts (lines 2000-2069) and select_with_spacing (2071-2106).  *)
(* A scored breakout is the tuple <<breakout_date, low_date, high_date,    *)
(* quality_score, breakout, category>>: the code's x[3] is component 4     *)
(* here and x[5] is component 6.  Component scores are kept in 1/10000,    *)
(* quality_score in 1/1000000 (weights 60, 15, 10, 15).                    *)
(***************************************************************************)
ScoreUnit == 10000

\* Clamp01 without the max(0.0, min(1.0, ...)) of lines 2030 and 2038-2039
Unclamped(x) == x

Clamp01(x) == Max2(0, Min2(ScoreUnit, x))

quality_score(d, breakout) ==
    LET \* breakout.get(key, default), lines 2011-2013
        max_drop_pct == IF "max_drop_pct" \in DOMAIN breakout
                        THEN breakout.max_drop_pct ELSE 30
        exception_days == IF "exception_days" \in DOMAIN breakout
                          THEN breakout.exception_days ELSE 0
        pullback_pct == IF "pullback_pct" \in DOMAIN breakout
                        THEN breakout.pullback_pct ELSE <<5, 100>>
        idx == get_loc(d, breakout.breakout_date)
        t0 == ScoreUnit - (ScoreUnit * max_drop_pct) \div max_consolidation_drop
        t1 == IF exception_days > 0 THEN (t0 * (10 - exception_days)) \div 10 ELSE t0
        tightness_score == Clamp01(t1)
        cons_days == breakout.breakout_date - breakout.high_date
        days_score == Min2((ScoreUnit * cons_days) \div 60, ScoreUnit)
        pullback_score ==
            Clamp01((1000 * (100 * pullback_pct[1] - min_pullback_pct * pullback_pct[2]))
                        \div pullback_pct[2])
        breakout_price == iloc(d, idx).close
        gain_score ==
            IF /\ breakout.category \in {3, 4}
               /\ breakout.cross_idx < Len(d)
               /\ breakout.cross_idx >= idx
            THEN Min2((ScoreUnit * (MaxCol(d, "high", idx, breakout.cross_idx)
                                       - breakout_price)) \div breakout_price, ScoreUnit)
            ELSE 0
    IN  60 * tightness_score + 15 * pullback_score + 10 * days_score + 15 * gain_score

\* list.sort(key=lambda x: x[i-1], reverse=True): descending and stable
RECURSIVE SortDescBy(_, _)
SortDescBy(s, i) ==
    IF s = <<>> THEN <<>>
    ELSE LET rest == SortDescBy(SubSeq(s, 1, Len(s) - 1), i)
             x == s[Len(s)]
             n == Cardinality({k \in 1..Len(rest) : rest[k][i] >= x[i]})
         IN  SubSeq(rest, 1, n) \o <<x>> \o SubSeq(rest, n + 1, Len(rest))

\* sorted(selected, key=lambda x: x['breakout_date']): ascending and stable
RECURSIVE SortByBreakoutDate(_)
SortByBreakoutDate(s) ==
    IF s = <<>> THEN <<>>
    ELSE LET rest == SortByBreakoutDate(SubSeq(s, 1, Len(s) - 1))
             x == s[Len(s)]
             n == Cardinality({k \in 1..Len(rest) :
                                  rest[k].breakout_date <= x.breakout_date})
         IN  SubSeq(rest, 1, n) \o <<x>> \o SubSeq(rest, n + 1, Len(rest))

\* lines 2016-2017: get_loc raises KeyError for a date that is not in the
\* index; the handler at 2062-2065 then gives the episode the score 0.0
ScoringFails(d, breakout) ==
    \/ \A k \in 1..Len(d) : d[k].date # breakout.breakout_date
    \/ \A k \in 1..Len(d) : d[k].date # breakout.high_date

score_breakouts(d, valid_breakouts) ==
    SortDescBy([k \in 1..Len(valid_breakouts) |->
                   LET breakout == valid_breakouts[k]
                   IN  <<breakout.breakout_date, breakout.low_date, breakout.high_date,
                         IF ScoringFails(d, breakout) THEN 0 ELSE quality_score(d, breakout),
                         breakout, breakout.category>>],
               4)

\* the overlap test of line 2097 with strict comparisons: windows that only
\* touch (dates exactly 2 * min_spacing_days apart) would count as disjoint
OverlapsStrict(min_d, max_d, span) == min_d < span[2] /\ max_d > span[1]

\* line 2097: the window of a breakout overlaps an accepted span
Overlaps(min_d, max_d, span) == min_d <= span[2] /\ max_d >= span[1]

\* lines 2087-2103: the loop over sorted_breakouts from position k on
RECURSIVE SelectLoop(_, _, _, _, _)
SelectLoop(sorted_breakouts, k, selected_breakouts, date_spans, min_spacing_days) ==
    IF k > Len(sorted_breakouts) THEN selected_breakouts
    ELSE LET breakout_data == sorted_breakouts[k][5]
             breakout_date == breakout_data.breakout_date
             min_d == breakout_date - min_spacing_days
             max_d == breakout_date + min_spacing_days
             is_valid == \A j \in 1..Len(date_spans) : ~Overlaps(min_d, max_d, date_spans[j])
         IN  IF is_valid
             THEN SelectLoop(sorted_breakouts, k + 1,
                             Append(selected_breakouts, breakout_data),
                             Append(date_spans, <<min_d, max_d>>), min_spacing_days)
             ELSE SelectLoop(sorted_breakouts, k + 1, selected_breakouts, date_spans,
                             min_spacing_days)

\* line 2071: min_spacing_days=30, the value every caller gets
default_min_spacing_days == 30

select_with_spacing(scored) ==
    IF scored = <<>> THEN <<>>
    ELSE LET sorted_breakouts == SortDescBy(scored, 6)      \* line 2080: key x[5]
         IN  SortByBreakoutDate(
                 SelectLoop(sorted_breakouts, 1, <<>>, <<>>, default_min_spacing_days))


(***************************************************************************)
(* process_ticker (lines 2130-2202) for one ticker: the pipeline.          *)
(***************************************************************************)
StatsKeys ==
    {"total_dates", "initial_filter", "daily_range_filter", "big_move_filter",
     "time_filter", "price_range_filter", "pattern_quality_filter", "pullback_filter",
     "duplicate_filter", "category_adjustments", "exception_allowed",
     "category1_found", "category2_found", "category3_found", "category4_found",
     "green_candle_filter", "integrity_fail"}

\* lines 1810-1828
InitialStats == [k \in StatsKeys |-> 0]

LoadedColumns == {"open", "high", "low", "close", "volume", "10sma", "20sma", "50sma"}

\* variables of write_json, idle while the pipeline runs
IdleWrite == [pc |-> "idle"]

\* main() and the downloader are idle while one ticker, one selection or one
\* write is followed: CONFIG['verbosity'] has its default (line 69) and the
\* file system may behave in every way on every call
IdleRun == [pc |-> "idle"]
IdleDl == [pc |-> "idle"]
IdleMove == [pc |-> "idle"]
IdleTags == [pc |-> "idle"]
NoBatch ==
    /\ run = IdleRun
    /\ dl = IdleDl
    /\ verbosity = 0
    /\ log = 0
    /\ io_env = IOChoices
    /\ outcomes = <<>>
    /\ mv = IdleMove
    /\ gi = IdleTags

Init ==
    /\ pc = "start"
    /\ ticker \in Tickers
    /\ df = None
    /\ data_cache = {}
    /\ df_columns = {}
    /\ breakout_candidates = <<>>
    /\ cand_pos = 1
    /\ details = None
    /\ all_valid_breakouts = <<>>
    /\ stats = InitialStats
    /\ last_pb = None
    /\ disk = EmptyDisk
    /\ scored_breakouts = <<>>
    /\ setups = <<>>
    /\ ret = None
    /\ wj = IdleWrite
    /\ NoBatch

\* Each action hands what it computes to an operator that builds the next
\* state, so that a value is computed once per step.

\* the records handed to the logger by a step that makes n0 unguarded calls,
\* n1 calls guarded by verbosity > 0 and n2 calls guarded by verbosity > 1
\* (debug_enabled, lines 1809 and 2144, is verbosity >= 2); the records of
\* the reason of a rejection inside the loader, find_big_move and
\* process_breakout are not counted
Logged(n0, n1, n2) ==
    log' = log + n0 + (IF verbosity > 0 THEN n1 ELSE 0) + (IF verbosity > 1 THEN n2 ELSE 0)

\* lines 1878-1883 and 1895-1904: the positions for which the scan logs the
\* first of the four checks that failed
ScanReasonsLogged(d) ==
    Cardinality({i \in valid_indices(d) :
        ~ /\ iloc(d, i).high > iloc(d, i - 1).high
          /\ iloc(d, i).close > iloc(d, i - 1).high
          /\ iloc(d, i).volume > 2 * iloc(d, i - 1).volume
          /\ 2 * (i - Max2(0, i - 20)) * iloc(d, i).volume
                > 3 * SumCol(d, "volume", Max2(0, i - 20), i - 1)
          /\ 100 * (iloc(d, i).high - iloc(d, i).low)
                >= min_daily_range_pct * iloc(d, i).open})

\* the cache evicted without the entry of t
NotEvicted(cache, t) == cache

\* lines 2199-2202: the finally clause of process_ticker
Evicted(cache, t) == cache \ {t}

\* lines 2150-2153 and 2199-2202: the early return when nothing usable was
\* loaded (the finally clause empties the cache entry), else on to the scan
Loaded(loaded) ==
    /\ df' = loaded
    /\ IF loaded = None \/ ~check_data_quality(loaded)
       THEN /\ ret' = <<[success |-> FALSE, created_dirs |-> {}]>>
            /\ data_cache' = Evicted(data_cache, ticker)
            /\ df_columns' = df_columns
            /\ pc' = "done"
            /\ Logged(0, 0, 2)                 \* lines 2148-2152
       ELSE /\ ret' = ret
            /\ data_cache' = {ticker}          \* line 211
            /\ df_columns' = LoadedColumns
            /\ pc' = "identify"
            /\ Logged(0, 0, 1)                 \* lines 2148-2149

\* line 2147: read_stock_data
LoadTicker ==
    /\ pc = "start"
    /\ Loaded(LoadSeries(RawData(ticker)))
    /\ UNCHANGED <<ticker, breakout_candidates, cand_pos, details, all_valid_breakouts,
                   stats, last_pb, disk, scored_breakouts, setups,
                   wj, run, dl, verbosity, io_env, outcomes, mv, gi>>

\* the scan counting every scanned date in 'initial_filter', the dates it
\* appends to breakout_candidates included (line 1919 without its else)
ScannedCountingAll(cands, total) ==
    /\ df_columns' = df_columns \cup {"daily_range_pct", "close_change", "volume_ratio"}
    /\ breakout_candidates' = cands
    /\ stats' = [stats EXCEPT !["total_dates"] = total, !["initial_filter"] = total]
    /\ pc' = "candidates"
    /\ Logged(0, IF Len(cands) > 0 THEN 1 ELSE 0, 2 + ScanReasonsLogged(df))

\* lines 1856-1919: the added columns, the counters and the candidate list
Scanned(cands, total) ==
    /\ df_columns' = df_columns \cup {"daily_range_pct", "close_change", "volume_ratio"}
    /\ breakout_candidates' = cands
    /\ stats' = [stats EXCEPT !["total_dates"] = total,
                              !["initial_filter"] = total - Len(cands)]
    /\ pc' = "candidates"
    \* lines 1868, 1895-1904 and 1921-1936
    /\ Logged(0, IF Len(cands) > 0 THEN 1 ELSE 0, 2 + ScanReasonsLogged(df))

\* lines 1809-1936: the early exits, else the scan
Scan ==
    /\ pc = "identify"
    /\ IF Len(df) < 252 \/ 100 * GreenCount(df, 0, Len(df) - 1) > 85 * Len(df)
       THEN /\ pc' = "return"
            /\ UNCHANGED <<df_columns, breakout_candidates, stats>>
            /\ Logged(0, 1, 1)                 \* lines 1837-1840 or 1846-1849
       ELSE Scanned(ScanCandidates(df), Max2(252, Len(df) - 63) - 252)
    /\ UNCHANGED <<ticker, df, data_cache, cand_pos, details, all_valid_breakouts,
                   last_pb, disk, scored_breakouts, setups, ret,
                   wj, run, dl, verbosity, io_env, outcomes, mv, gi>>

\* a candidate is handed on to process_breakout only below the debug level
EvaluatedBelowDebug(r) ==
    IF r.ok /\ verbosity < 2
    THEN /\ details' = <<r>>
         /\ pc' = "process"
         /\ UNCHANGED <<stats, cand_pos, log>>
    ELSE /\ stats' = [stats EXCEPT !["initial_filter"] = @ + 1]
         /\ cand_pos' = cand_pos + 1
         /\ Logged(0, 0, 1)
         /\ UNCHANGED <<details, pc>>

\* lines 1940-1942, and fail() at 1173-1177
Evaluated(r) ==
    IF r.ok
    THEN /\ details' = <<r>>
         /\ pc' = "process"
         /\ UNCHANGED <<stats, cand_pos, log>>
    ELSE /\ stats' = [stats EXCEPT ![r.reason] = @ + 1]
         /\ cand_pos' = cand_pos + 1
         /\ Logged(0, 0, 1)                    \* log_debug, lines 1169-1171
         /\ UNCHANGED <<details, pc>>

\* lines 1939-1942: evaluate_candidate on the next candidate
EvaluateCandidate ==
    /\ pc = "candidates"
    /\ cand_pos <= Len(breakout_candidates)
    /\ Evaluated(evaluate_candidate(df, breakout_candidates[cand_pos],
                                    all_valid_breakouts))
    /\ UNCHANGED <<ticker, df, data_cache, df_columns, breakout_candidates,
                   all_valid_breakouts, last_pb, disk, scored_breakouts, setups, ret,
                   wj, run, dl, verbosity, io_env, outcomes, mv, gi>>

category_key(category) ==
    CASE category = 1 -> "category1_found"
      [] category = 2 -> "category2_found"
      [] category = 3 -> "category3_found"
      [] category = 4 -> "category4_found"

\* lines 1952-1958: what identify_quality_breakouts does with the result r
Processed(det, directory, r) ==
    /\ disk' = r.disk
    /\ last_pb' = <<[directory |-> directory, returned |-> r.result # None]>>
    /\ IF r.result # None
       THEN /\ stats' = [stats EXCEPT ![category_key(det.category)] = @ + 1]
            /\ all_valid_breakouts' = Append(all_valid_breakouts, r.result[1])
            /\ Logged(0, 3, 0)                 \* lines 1401-1402 and 1785-1787
       ELSE /\ stats' = [stats EXCEPT !["integrity_fail"] = @ + 1]
            /\ UNCHANGED all_valid_breakouts
            /\ Logged(1, 1, 0)                 \* lines 1401-1402 and 1959-1966

\* process_breakout under every behaviour of the file system
ProcessPlanned(det, plan) ==
    \E io \in io_env : Processed(det, plan.directory, process_breakout(plan, io, disk))

\* lines 1944-1971: process_breakout on the approved candidate
ProcessBreakout ==
    /\ pc = "process"
    /\ ProcessPlanned(details[1],
                      BreakoutPlan(df, get_loc(df, details[1].focus_date),
                                   get_loc(df, details[1].move_start_date),
                                   get_loc(df, details[1].high_date)))
    /\ details' = None
    /\ cand_pos' = cand_pos + 1
    /\ pc' = "candidates"
    /\ UNCHANGED <<ticker, df, data_cache, df_columns, breakout_candidates,
                   scored_breakouts, setups, ret,
                   wj, run, dl, verbosity, io_env, outcomes, mv, gi>>

\* lines 1983-1984
Selected(scored) ==
    /\ scored_breakouts' = scored
    /\ setups' = select_with_spacing(scored)
    \* lines 1973-1978 and 1986-1990
    /\ Logged(0, 2, 1 + Len(select_with_spacing(scored)))

\* lines 1980-1998: score and select; the list returned is all_valid_breakouts
\* (every setup is already in it, so lines 1993-1996 append nothing)
SelectSetups ==
    /\ pc = "candidates"
    /\ cand_pos > Len(breakout_candidates)
    /\ IF all_valid_breakouts # <<>>
       THEN Selected(score_breakouts(df, all_valid_breakouts))
       ELSE /\ UNCHANGED <<scored_breakouts, setups>>
            /\ Logged(0, IF Len(breakout_candidates) > 0 THEN 1 ELSE 0, 0)   \* line 1973
    /\ pc' = "return"
    /\ UNCHANGED <<ticker, df, data_cache, df_columns, breakout_candidates, cand_pos,
                   details, all_valid_breakouts, stats, last_pb, disk, ret,
                   wj, run, dl, verbosity, io_env, outcomes, mv, gi>>

\* line 2161; created_dirs is kept as the set it is sorted from
CreatedDirs(valid_breakouts) ==
    {valid_breakouts[k].output_path : k \in 1..Len(valid_breakouts)}

\* lines 2160-2202
ReturnTicker ==
    /\ pc = "return"
    /\ ret' = <<[success |-> CreatedDirs(all_valid_breakouts) # {},
                 created_dirs |-> CreatedDirs(all_valid_breakouts)]>>
    /\ data_cache' = Evicted(data_cache, ticker)
    /\ pc' = "done"
    \* lines 2157-2158, 2167-2168 and 2190-2194
    /\ Logged(0, 0, IF all_valid_breakouts = <<>> THEN 3 ELSE 2)
    /\ UNCHANGED <<ticker, df, df_columns, breakout_candidates, cand_pos, details,
                   all_valid_breakouts, stats, last_pb, disk, scored_breakouts, setups,
                   wj, run, dl, verbosity, io_env, outcomes, mv, gi>>

Next ==
    \/ LoadTicker
    \/ Scan
    \/ EvaluateCandidate
    \/ ProcessBreakout
    \/ SelectSetups
    \/ ReturnTicker

Spec == Init /\ [][Next]_vars


(***************************************************************************)
(* The Selector on its own: score_breakouts' final sort (line 2068)        *)
(* followed by select_with_spacing, on every list of at most MaxEpisodes   *)
(* scored episodes with distinct breakout dates.                           *)
(***************************************************************************)
MaxEpisodes == 3

SelDates == {0, 10, 60, 70, 130}

SelScores == {100000, 250000}

SelCategories == {2, 3, 4}

\* the tuple appended at line 2060
ScoredEpisode(date, score, category) ==
    <<date, date - 40, date - 20, score,
      [breakout_date |-> date, low_date |-> date - 40, high_date |-> date - 20,
       category |-> category],
      category>>

ScoredEpisodes ==
    {ScoredEpisode(d, q, c) : d \in SelDates, q \in SelScores, c \in SelCategories}

ScoredLists ==
    {l \in UNION {[1..n -> ScoredEpisodes] : n \in 0..MaxEpisodes} :
        \A i, j \in 1..Len(l) : i # j => l[i][1] # l[j][1]}

InitSel ==
    /\ pc = "scored"
    /\ scored_breakouts \in ScoredLists
    /\ setups = <<>>
    /\ ticker = None
    /\ df = None
    /\ data_cache = {}
    /\ df_columns = {}
    /\ breakout_candidates = <<>>
    /\ cand_pos = 1
    /\ details = None
    /\ all_valid_breakouts = <<>>
    /\ stats = InitialStats
    /\ last_pb = None
    /\ disk = EmptyDisk
    /\ ret = None
    /\ wj = IdleWrite
    /\ NoBatch

\* line 2068
SortScored ==
    /\ pc = "scored"
    /\ scored_breakouts' = SortDescBy(scored_breakouts, 4)
    /\ pc' = "sorted"
    /\ UNCHANGED <<ticker, df, data_cache, df_columns, breakout_candidates, cand_pos,
                   details, all_valid_breakouts, stats, last_pb, disk, setups, ret,
                   wj, run, dl, verbosity, log, io_env, outcomes, mv, gi>>

\* line 1984
SelectWithSpacing ==
    /\ pc = "sorted"
    /\ setups' = select_with_spacing(scored_breakouts)
    /\ pc' = "selected"
    /\ UNCHANGED <<ticker, df, data_cache, df_columns, breakout_candidates, cand_pos,
                   details, all_valid_breakouts, stats, last_pb, disk, scored_breakouts,
                   ret, wj, run, dl, verbosity, log, io_env, outcomes, mv, gi>>

NextSel ==
    \/ SortScored
    \/ SelectWithSpacing

SpecSel == InitSel /\ [][NextSel]_vars

(***************************************************************************)
(* score_breakouts on its own (lines 2000-2069): one episode, with or      *)
(* without the optional keys, scored against a loaded series.  An episode  *)
(* keeps high_date before breakout_date; its breakout date may be missing  *)
(* from the index, which makes the scoring raise.                          *)
(***************************************************************************)
ScoreEpisodes ==
    {[breakout_date |-> b, low_date |-> 170, high_date |-> h, category |-> c,
      cross_idx |-> x, pullback_pct |-> p] :
        b \in {260, 400}, h \in {200, 246}, c \in 1..4, x \in {250, 286, 400},
        p \in {<<2, 100>>, <<129, 1600>>, <<20, 100>>}}
    \cup
    {[breakout_date |-> b, low_date |-> 170, high_date |-> 246, category |-> c,
      cross_idx |-> 286, pullback_pct |-> <<129, 1600>>, max_drop_pct |-> m,
      exception_days |-> e] :
        b \in {260, 400}, c \in 1..4, m \in {0, 10, 45}, e \in {0, 2}}

InitScore ==
    /\ pc = "score_breakouts"
    /\ df = LoadSeries(RawData(BaseTicker))
    /\ all_valid_breakouts \in {<<e>> : e \in ScoreEpisodes}
    /\ scored_breakouts = <<>>
    /\ setups = <<>>
    /\ ticker = None
    /\ data_cache = {}
    /\ df_columns = {}
    /\ breakout_candidates = <<>>
    /\ cand_pos = 1
    /\ details = None
    /\ stats = InitialStats
    /\ last_pb = None
    /\ disk = EmptyDisk
    /\ ret = None
    /\ wj = IdleWrite
    /\ NoBatch

\* line 1983
ScoreBreakouts ==
    /\ pc = "score_breakouts"
    /\ scored_breakouts' = score_breakouts(df, all_valid_breakouts)
    /\ pc' = "scored_all"
    /\ UNCHANGED <<ticker, df, data_cache, df_columns, breakout_candidates, cand_pos,
                   details, all_valid_breakouts, stats, last_pb, disk, setups, ret,
                   wj, run, dl, verbosity, log, io_env, outcomes, mv, gi>>

SpecScore == InitScore /\ [][ScoreBreakouts]_vars

(***************************************************************************)
(* determine_performance_category on its own (lines 446-461): a series of  *)
(* three bars, the breakout at bar 0, closes on and next to the cutoffs    *)
(* -2.5%, 10% and 35% of the breakout open, and a cross position that may  *)
(* lie past the end of the series.                                         *)
(***************************************************************************)
CategoryCloses ==
    [o \in {200, 1000} |->
        IF o = 200 THEN {194, 195, 196, 220, 221, 270, 271}
        ELSE {974, 975, 976, 1100, 1101, 1350, 1351}]

CategoryBar(k, o, c) ==
    [date |-> k, open |-> o, high |-> Max2(o, c) + 5, low |-> Min2(o, c) - 5,
     close |-> c, volume |-> 10]

CategorySeries ==
    UNION {{<<CategoryBar(0, o, o), CategoryBar(1, o, c1), CategoryBar(2, c1, c2)>> :
               c1 \in CategoryCloses[o], c2 \in CategoryCloses[o]} : o \in {200, 1000}}

InitCategory ==
    /\ pc = "categorise"
    /\ df \in CategorySeries
    /\ details = None
    /\ ticker = None
    /\ data_cache = {}
    /\ df_columns = {}
    /\ breakout_candidates = <<>>
    /\ cand_pos = 1
    /\ all_valid_breakouts = <<>>
    /\ stats = InitialStats
    /\ last_pb = None
    /\ disk = EmptyDisk
    /\ scored_breakouts = <<>>
    /\ setups = <<>>
    /\ ret = None
    /\ wj = IdleWrite
    /\ NoBatch

\* line 1306 (and 1611): the category of the breakout at bar 0
DetermineCategory ==
    /\ pc = "categorise"
    /\ \E cross_idx \in {1, 2, 3, 7} :
          details' = <<[cross_idx |-> cross_idx,
                        category |-> determine_performance_category(df, 0, cross_idx)]>>
    /\ pc' = "categorised"
    /\ UNCHANGED <<ticker, df, data_cache, df_columns, breakout_candidates, cand_pos,
                   all_valid_breakouts, stats, last_pb, disk, scored_breakouts, setups,
                   ret, wj, run, dl, verbosity, log, io_env, outcomes, mv, gi>>

SpecCategory == InitCategory /\ [][DetermineCategory]_vars

(***************************************************************************)
(* write_json (lines 244-442), step by step, with a reader that may open   *)
(* the destination between any two steps.  The content of a file is        *)
(* "absent", "old" (the complete document of an earlier call),             *)
(* "truncated" (opened for writing, nothing written), "partial" or         *)
(* "complete".  Each file-system call either succeeds or raises.           *)
(***************************************************************************)
\* what is passed as df: a DataFrame with rows, one without, the list of
\* indicators, or a value whose JSON text is shorter than 10 bytes ("[]")
WriteData == {"frame", "empty_frame", "list", "empty_list"}

Exists(content) == content # "absent"

\* st_size >= 10 of a file holding `content' of `data'
SizeAtLeast10(content, data) ==
    \/ content = "old"
    \/ content = "partial"
    \/ content = "complete" /\ data # "empty_list"

\* json.load succeeds
ParsesAsJson(content) == content \in {"old", "complete"}

\* the verification of lines 410-437 without the st_size test of line 418
VerifyWrittenAnySize(content, data, readable) ==
    /\ Exists(content)
    /\ readable
    /\ ParsesAsJson(content)

\* lines 410-437; readable = opening and reading the file raises nothing
VerifyWritten(content, data, readable) ==
    /\ Exists(content)
    /\ SizeAtLeast10(content, data)
    /\ readable
    /\ ParsesAsJson(content)

InitWrite ==
    /\ pc = "write_json"
    /\ wj \in [pc : {"mkdir"}, data : WriteData, attempt : {0}, tmp : {"absent"},
               leaked : {0}, dest : {"absent", "old"}, write_success : {FALSE},
               ret : {None}, seen : {{}}]
    /\ ticker = None
    /\ df = None
    /\ data_cache = {}
    /\ df_columns = {}
    /\ breakout_candidates = <<>>
    /\ cand_pos = 1
    /\ details = None
    /\ all_valid_breakouts = <<>>
    /\ stats = InitialStats
    /\ last_pb = None
    /\ disk = EmptyDisk
    /\ scored_breakouts = <<>>
    /\ setups = <<>>
    /\ ret = None
    /\ NoBatch

OnlyWrite ==
    UNCHANGED <<pc, ticker, df, data_cache, df_columns, breakout_candidates, cand_pos,
                details, all_valid_breakouts, stats, last_pb, disk, scored_breakouts,
                setups, ret, run, dl, verbosity, log, io_env, outcomes, mv, gi>>

Return(value) == wj' = [wj EXCEPT !.ret = <<value>>, !.pc = "done"]

\* lines 253-259
WJ_Mkdir ==
    /\ wj.pc = "mkdir"
    /\ \E ok \in BOOLEAN :
          IF ok THEN wj' = [wj EXCEPT !.pc = "prepare"] ELSE Return(FALSE)
    /\ OnlyWrite

\* lines 261-323: an empty frame is refused (line 289)
WJ_Prepare ==
    /\ wj.pc = "prepare"
    /\ IF wj.data = "empty_frame" THEN Return(FALSE)
       ELSE wj' = [wj EXCEPT !.pc = "attempt"]
    /\ OnlyWrite

\* lines 331-342: NamedTemporaryFile(delete=False); when it raises, the
\* handler at 378-387 finds tmp_path None
WJ_CreateTmp ==
    /\ wj.pc = "attempt"
    /\ wj.attempt < 3
    /\ \E ok \in BOOLEAN :
          IF ok THEN wj' = [wj EXCEPT !.tmp = "truncated", !.pc = "dump"]
          ELSE wj' = [wj EXCEPT !.attempt = @ + 1]
    /\ OnlyWrite

\* lines 343-349: json.dump and flush; tmp_path is assigned after them, so
\* when they raise the handler at 378-387 unlinks nothing: the temporary
\* file stays in the directory
WJ_DumpTmp ==
    /\ wj.pc = "dump"
    /\ \E ok \in BOOLEAN :
          IF ok THEN wj' = [wj EXCEPT !.tmp = "complete", !.pc = "replace"]
          ELSE wj' = [wj EXCEPT !.tmp = "absent", !.leaked = @ + 1,
                                !.attempt = @ + 1, !.pc = "attempt"]
    /\ OnlyWrite

\* lines 352-361
WJ_Replace ==
    /\ wj.pc = "replace"
    /\ \E ok \in BOOLEAN :
          IF ok
          THEN wj' = [wj EXCEPT !.dest = "complete", !.tmp = "absent",
                                !.write_success = TRUE, !.pc = "verify"]
          ELSE wj' = [wj EXCEPT !.pc = IF Exists(wj.dest) THEN "unlink" ELSE "cleanup"]
    /\ OnlyWrite

\* line 363
WJ_UnlinkDest ==
    /\ wj.pc = "unlink"
    /\ \E ok \in BOOLEAN :
          IF ok THEN wj' = [wj EXCEPT !.dest = "absent", !.pc = "replace_again"]
          ELSE wj' = [wj EXCEPT !.pc = "cleanup"]
    /\ OnlyWrite

\* lines 364-371
WJ_ReplaceAgain ==
    /\ wj.pc = "replace_again"
    /\ \E ok \in BOOLEAN :
          IF ok
          THEN wj' = [wj EXCEPT !.dest = "complete", !.tmp = "absent",
                                !.write_success = TRUE, !.pc = "verify"]
          ELSE wj' = [wj EXCEPT !.pc = "cleanup"]
    /\ OnlyWrite

\* lines 372-377: a failed unlink of the temporary file is ignored
WJ_Cleanup ==
    /\ wj.pc = "cleanup"
    /\ \E ok \in BOOLEAN :
          wj' = [wj EXCEPT !.tmp = "absent",
                           !.leaked = IF ok THEN @ ELSE @ + 1,
                           !.attempt = @ + 1, !.pc = "attempt"]
    /\ OnlyWrite

\* lines 389-395 and 404-408: after three failed attempts, open(path, 'w')
WJ_OpenDirect ==
    /\ wj.pc = "attempt"
    /\ wj.attempt = 3
    /\ \E ok \in BOOLEAN :
          IF ok THEN wj' = [wj EXCEPT !.dest = "truncated", !.pc = "direct"]
          ELSE Return(FALSE)
    /\ OnlyWrite

\* lines 396-408: json.dump and flush into the destination itself
WJ_DumpDirect ==
    /\ wj.pc = "direct"
    /\ \E ok \in BOOLEAN :
          IF ok
          THEN wj' = [wj EXCEPT !.dest = "complete", !.write_success = TRUE,
                                !.pc = "verify"]
          ELSE \E left \in {"truncated", "partial"} :
                  wj' = [wj EXCEPT !.dest = left, !.ret = <<FALSE>>, !.pc = "done"]
    /\ OnlyWrite

\* lines 410-442
WJ_Verify ==
    /\ wj.pc = "verify"
    /\ \E readable \in BOOLEAN : Return(VerifyWritten(wj.dest, wj.data, readable))
    /\ OnlyWrite

\* another process opens the destination path while write_json runs
ReaderOpens ==
    /\ wj.pc # "done"
    /\ wj' = [wj EXCEPT !.seen = @ \cup {wj.dest}]
    /\ OnlyWrite

NextWrite ==
    \/ WJ_Mkdir
    \/ WJ_Prepare
    \/ WJ_CreateTmp
    \/ WJ_DumpTmp
    \/ WJ_Replace
    \/ WJ_UnlinkDest
    \/ WJ_ReplaceAgain
    \/ WJ_Cleanup
    \/ WJ_OpenDirect
    \/ WJ_DumpDirect
    \/ WJ_Verify
    \/ ReaderOpens

SpecWrite == InitWrite /\ [][NextWrite]_vars

(***************************************************************************)
(* main() and process_tickers (lines 2204-2382).  The data directory holds *)
(* a file for some of the names; the pipeline above runs once per call of  *)
(* process_ticker.  disk is the part of the dataset directory under the    *)
(* ticker being processed (its directories carry the ticker's name); the   *)
(* parts of the tickers already processed are kept in run.dataset.  An     *)
(* unexpected exception may be raised at any point of process_ticker's try *)
(* body once the file is read; the handler of lines 2196-2198 may itself   *)
(* raise (a MemoryError while it formats the record), and then the         *)
(* exception reaches process_tickers.                                      *)
(***************************************************************************)
DataNames == {"A", "B", "C", "D"}

\* the content of the data files: A, B and D hold a series with a breakout,
\* C a series the loader rejects
DataFiles ==
    [n \in DataNames |->
        IF n = "C" THEN [FlatTicker EXCEPT !.ninv = 8]
        ELSE IF n = "D" THEN [BaseTicker EXCEPT !.C = 12]
        ELSE BaseTicker]

\* the largest number of tickers in a batch
MaxBatch == 2

\* line 73
ZeroSTATS == [ticker_count |-> 0, success_count |-> 0, failed_count |-> 0]

\* the file system of a run of main(): a directory can or cannot be made,
\* and every write succeeds
MainIO == {io \in IOChoices : io.points = "ok" /\ io.D = "ok" /\ io.after = "ok"
                              /\ io.success = "ok"}

\* the orders in which iterdir may list the names of S
Orders(S) ==
    {o \in [1..Cardinality(S) -> S] : \A i, j \in 1..Cardinality(S) : o[i] = o[j] => i = j}

\* no call of process_ticker is under way
NoCall ==
    /\ pc' = "idle"
    /\ ticker' = None
    /\ df' = None
    /\ df_columns' = {}
    /\ breakout_candidates' = <<>>
    /\ cand_pos' = 1
    /\ details' = None
    /\ all_valid_breakouts' = <<>>
    /\ stats' = InitialStats
    /\ last_pb' = None
    /\ disk' = EmptyDisk
    /\ scored_breakouts' = <<>>
    /\ setups' = <<>>
    /\ ret' = None

InitMain ==
    /\ run \in [pc : {"main"}, args : [verbosity : 0..2],
                files : {S \in SUBSET DataNames : Cardinality(S \ {"A"}) <= MaxBatch},
                tickers : {<<>>}, tickers_to_process : {<<>>}, pos : {1},
                STATS : {ZeroSTATS}, success : {0}, created_directories : {{}},
                processed : {<<>>}, raised : {{}}, dataset : {<<>>},
                result : {None}, exit : {None}]
    /\ pc = "idle"
    /\ ticker = None
    /\ df = None
    /\ data_cache = {}
    /\ df_columns = {}
    /\ breakout_candidates = <<>>
    /\ cand_pos = 1
    /\ details = None
    /\ all_valid_breakouts = <<>>
    /\ stats = InitialStats
    /\ last_pb = None
    /\ disk = EmptyDisk
    /\ scored_breakouts = <<>>
    /\ setups = <<>>
    /\ ret = None
    /\ wj = IdleWrite
    /\ dl = IdleDl
    /\ verbosity = 0
    /\ log = 0
    /\ io_env = MainIO
    /\ outcomes = <<>>
    /\ mv = IdleMove
    /\ gi = IdleTags

\* frame of the steps of main() outside process_ticker
OnlyMain ==
    UNCHANGED <<pc, ticker, df, df_columns, breakout_candidates, cand_pos, details,
                all_valid_breakouts, stats, last_pb, disk, scored_breakouts, setups,
                ret, wj, dl, io_env, outcomes, mv, gi>>

\* lines 2337-2364 and 2384-2426: parse_args, configure_runtime (args.verbosity
\* always exists, so line 2402 decides), then the dataset directory is removed
\* and made again; an OSError there goes to the handler of lines 2374-2376
MainSetup ==
    /\ run.pc = "main"
    /\ verbosity' = run.args.verbosity
    /\ \E ok \in BOOLEAN :
          /\ run' = IF ok THEN [run EXCEPT !.pc = "get_tickers"]
                    ELSE [run EXCEPT !.pc = "finally", !.result = <<1>>]
          /\ log' = log + 2
    /\ UNCHANGED data_cache
    /\ OnlyMain

\* lines 2366-2370 and 2204-2222: the names of the data files other than
\* A.json, in the order the directory lists them
GetTickers ==
    /\ run.pc = "get_tickers"
    /\ \E order \in Orders(run.files \ {"A"}) :
          run' = IF order = <<>>
                 THEN [run EXCEPT !.pc = "finally", !.result = <<0>>]
                 ELSE [run EXCEPT !.pc = "process_tickers", !.tickers = order]
    /\ log' = log + 1
    /\ UNCHANGED <<data_cache, verbosity>>
    /\ OnlyMain

\* lines 2236-2259: STATS['ticker_count'] and the list of the tickers that
\* still have a data file (a file may have been removed since the listing)
ProcessTickers ==
    /\ run.pc = "process_tickers"
    /\ \E gone \in {{}} \cup {{n} : n \in run.files} :
          LET existing_tickers == (run.files \ gone) \ {"A"}
              HasFile(t) == t \in existing_tickers
          IN  run' = [run EXCEPT !.pc = "loop", !.pos = 1,
                                 !.files = run.files \ gone,
                                 !.STATS.ticker_count = Len(run.tickers),
                                 !.tickers_to_process = SelectSeq(run.tickers, HasFile)]
    /\ UNCHANGED <<data_cache, verbosity, log>>
    /\ OnlyMain

\* lines 2262-2265: the loop calls process_ticker on the next ticker
StartTicker ==
    /\ run.pc = "loop"
    /\ pc = "idle"
    /\ run.pos <= Len(run.tickers_to_process)
    /\ run' = [run EXCEPT !.processed = Append(@, run.tickers_to_process[run.pos])]
    /\ pc' = "start"
    /\ ticker' = DataFiles[run.tickers_to_process[run.pos]]
    /\ UNCHANGED <<df, data_cache, df_columns, breakout_candidates, cand_pos, details,
                   all_valid_breakouts, stats, last_pb, disk, scored_breakouts, setups, ret,
                   wj, dl, verbosity, log, io_env, outcomes, mv, gi>>

\* lines 2196-2202: an exception in the try body of process_ticker; the
\* handler returns (False, created_dirs), created_dirs being set only from
\* line 2161 on, or raises itself; the finally clause runs in both cases
RaiseInTicker ==
    /\ run.pc = "loop"
    /\ pc \in {"identify", "candidates", "process", "return"}
    /\ \E escapes \in BOOLEAN :
       \E dirs \in {{}} \cup (IF pc = "return" THEN {CreatedDirs(all_valid_breakouts)}
                              ELSE {}) :
          ret' = <<IF escapes THEN [success |-> FALSE, created_dirs |-> {}, raised |-> TRUE]
                   ELSE [success |-> FALSE, created_dirs |-> dirs]>>
    /\ run' = [run EXCEPT !.raised = @ \cup {run.tickers_to_process[run.pos]}]
    /\ data_cache' = Evicted(data_cache, ticker)
    /\ pc' = "done"
    /\ log' = log + 1
    /\ UNCHANGED <<ticker, df, df_columns, breakout_candidates, cand_pos, details,
                   all_valid_breakouts, stats, last_pb, disk, scored_breakouts, setups,
                   wj, dl, verbosity, io_env, outcomes, mv, gi>>

\* the loop of process_tickers without a handler: an exception that leaves
\* process_ticker ends the batch
CollectedOrAborted(r, name, outcome, dsk) ==
    IF "raised" \in DOMAIN outcome
    THEN [r EXCEPT !.pc = "finally", !.result = <<1>>,
                   !.dataset = (name :> dsk) @@ r.dataset]
    ELSE [r EXCEPT !.STATS.failed_count = @ + 1, !.pos = @ + 1,
                   !.dataset = (name :> dsk) @@ r.dataset]

\* lines 2265-2282: what process_tickers does with the outcome of the call
\* on name, dsk being what the call left in the dataset directory
Collected(r, name, outcome, dsk) ==
    IF "raised" \in DOMAIN outcome
    THEN [r EXCEPT !.STATS.failed_count = @ + 1, !.pos = @ + 1,
                   !.dataset = (name :> dsk) @@ r.dataset]
    ELSE IF outcome.success
    THEN [r EXCEPT !.success = @ + 1, !.STATS.success_count = @ + 1, !.pos = @ + 1,
                   !.created_directories = @ \cup {<<name, d>> : d \in outcome.created_dirs},
                   !.dataset = (name :> dsk) @@ r.dataset]
    ELSE [r EXCEPT !.STATS.failed_count = @ + 1, !.pos = @ + 1,
                   !.dataset = (name :> dsk) @@ r.dataset]

\* lines 2265-2282: process_ticker has returned or raised
CollectTicker ==
    /\ run.pc = "loop"
    /\ pc = "done"
    /\ run' = Collected(run, run.tickers_to_process[run.pos], ret[1], disk)
    /\ NoCall
    /\ log' = log + (IF "raised" \in DOMAIN ret[1] THEN 1 ELSE 0)
    /\ UNCHANGED <<data_cache, wj, dl, verbosity, io_env, outcomes, mv, gi>>

\* lines 2284-2293 and 2372: the list is exhausted, the summary is printed and
\* main goes on to its finally clause with the value 0 to return (line 2382)
FinishTickers ==
    /\ run.pc = "loop"
    /\ pc = "idle"
    /\ run.pos > Len(run.tickers_to_process)
    /\ run' = [run EXCEPT !.pc = "finally", !.result = <<0>>]
    /\ log' = log + 1
    /\ UNCHANGED <<data_cache, verbosity>>
    /\ OnlyMain

\* lines 2377-2378 and 2321-2326: cleanup() empties _data_cache, then reads
\* _hourly_data_cache, a name the module never binds: the NameError leaves
\* the finally clause in place of the pending return value, and STATS is
\* not reset
MainFinally ==
    /\ run.pc = "finally"
    /\ data_cache' = {}
    /\ run' = [run EXCEPT !.pc = "exited",
                          !.exit = <<[returned |-> None, raised |-> <<"NameError">>]>>]
    /\ UNCHANGED <<verbosity, log>>
    /\ OnlyMain

NextMain ==
    \/ MainSetup
    \/ GetTickers
    \/ ProcessTickers
    \/ StartTicker
    \/ Next
    \/ RaiseInTicker
    \/ CollectTicker
    \/ FinishTickers
    \/ MainFinally

SpecMain == InitMain /\ [][NextMain]_vars

(***************************************************************************)
(* The same ticker file processed under each --verbosity in turn (0, 1, 2: *)
(* line 44), in the same environment: configure_runtime stores the level   *)
(* (lines 2401-2402), main removes the dataset directory before each run   *)
(* (lines 2344-2346), and the file system behaves the same way on every    *)
(* call of process_breakout of the three runs.  outcomes keeps what the    *)
(* earlier runs returned and left on disk.                                 *)
(***************************************************************************)
VerboseIO ==
    {io \in IOChoices : io.points = "ok" /\ io.after = "ok" /\ io.success = "ok"
                        /\ io.D \in {"ok", "partial"}}

\* what a run of process_ticker produced: its return value, the accepted
\* episodes with their fields, the selection and the artifacts on disk
Outcome ==
    [ret |-> ret, episodes |-> all_valid_breakouts, setups |-> setups, disk |-> disk]

InitVerbose ==
    /\ pc = "start"
    /\ ticker \in Tickers
    /\ df = None
    /\ data_cache = {}
    /\ df_columns = {}
    /\ breakout_candidates = <<>>
    /\ cand_pos = 1
    /\ details = None
    /\ all_valid_breakouts = <<>>
    /\ stats = InitialStats
    /\ last_pb = None
    /\ disk = EmptyDisk
    /\ scored_breakouts = <<>>
    /\ setups = <<>>
    /\ ret = None
    /\ wj = IdleWrite
    /\ run = IdleRun
    /\ dl = IdleDl
    /\ verbosity = 0
    /\ log = 0
    /\ io_env \in {{io} : io \in VerboseIO}
    /\ outcomes = <<>>
    /\ mv = IdleMove
    /\ gi = IdleTags

\* lines 2337-2346 and 2401-2402: the next run, one level more verbose
RunAgain ==
    /\ pc = "done"
    /\ verbosity < 2
    /\ outcomes' = Append(outcomes, Outcome)
    /\ verbosity' = verbosity + 1
    /\ log' = 0
    /\ pc' = "start"
    /\ df' = None
    /\ data_cache' = {}
    /\ df_columns' = {}
    /\ breakout_candidates' = <<>>
    /\ cand_pos' = 1
    /\ details' = None
    /\ all_valid_breakouts' = <<>>
    /\ stats' = InitialStats
    /\ last_pb' = None
    /\ disk' = EmptyDisk
    /\ scored_breakouts' = <<>>
    /\ setups' = <<>>
    /\ ret' = None
    /\ UNCHANGED <<ticker, wj, run, dl, io_env, mv, gi>>

NextVerbose ==
    \/ Next
    \/ RunAgain

SpecVerbose == InitVerbose /\ [][NextVerbose]_vars

(***************************************************************************)
(* download.py: StockDataDownloader.process_all and process_bulk_batch     *)
(* (lines 135-284).  A ticker is the sequence of its characters.  What     *)
(* yfinance answers is the environment's choice on every attempt; a        *)
(* rate-limit mark may or may not have expired when it is next looked at.  *)
(* The attempt counts of failed_tickers are only printed, and are kept up  *)
(* to MaxCounted.                                                          *)
(***************************************************************************)
\* line 149
max_retries == 10

\* the batch_size argument of process_all (100 by default, line 245)
batch_size == 2

MaxCounted == 2

\* line 72
max_rate_limit_count == 5

\* str.upper on the characters in use
Upper(c) ==
    CASE c = "m" -> "M"
      [] c = "s" -> "S"
      [] c = "u" -> "U"
      [] OTHER -> c

upper(t) == [k \in 1..Len(t) |-> Upper(t[k])]

\* str.endswith
endswith(t, suffix) ==
    /\ Len(t) >= Len(suffix)
    /\ SubSeq(t, Len(t) - Len(suffix) + 1, Len(t)) = suffix

\* line 140
ExcludedSuffixes == {<<"-", "W", "T">>, <<"-", "U", "N">>, <<"U">>, <<"W">>, <<"R">>}

\* the lines of tickers.csv: MS, MU (which ends in U) and ms
TickerLists ==
    {<<>>, <<<<"M", "S">>>>, <<<<"M", "U">>>>, <<<<"m", "s">>>>,
     <<<<"M", "S">>, <<"M", "U">>>>, <<<<"M", "S">>, <<"S", "M">>, <<"M", "M">>>>}

InitDownload ==
    /\ dl \in [pc : {"while"}, tickers : TickerLists,
               existing_files : SUBSET {<<"M", "S">>, <<"M", "U">>},
               failed_tickers : {<<>>}, rate_limit_times : {{}}, rate_limit_count : {0},
               remaining_tickers : {<<>>}, i : {0}, valid_tickers : {<<>>},
               attempt : {0}]
    /\ pc = "download"
    /\ ticker = None
    /\ df = None
    /\ data_cache = {}
    /\ df_columns = {}
    /\ breakout_candidates = <<>>
    /\ cand_pos = 1
    /\ details = None
    /\ all_valid_breakouts = <<>>
    /\ stats = InitialStats
    /\ last_pb = None
    /\ disk = EmptyDisk
    /\ scored_breakouts = <<>>
    /\ setups = <<>>
    /\ ret = None
    /\ wj = IdleWrite
    /\ run = IdleRun
    /\ verbosity = 0
    /\ log = 0
    /\ io_env = IOChoices
    /\ outcomes = <<>>
    /\ mv = IdleMove
    /\ gi = IdleTags

OnlyDownload ==
    UNCHANGED <<pc, ticker, df, data_cache, df_columns, breakout_candidates, cand_pos,
                details, all_valid_breakouts, stats, last_pb, disk, scored_breakouts,
                setups, ret, wj, run, verbosity, log, io_env, outcomes, mv, gi>>

\* self.failed_tickers[t] = self.failed_tickers.get(t, 0) + 1 for the tickers
\* of the sequence ts
Failed(failed_tickers, ts) ==
    [t \in DOMAIN failed_tickers \cup Range(ts) |->
        IF t \in Range(ts)
        THEN Min2(MaxCounted, (IF t \in DOMAIN failed_tickers THEN failed_tickers[t] ELSE 0) + 1)
        ELSE failed_tickers[t]]

\* lines 269-272 and 259-264: the batch is over; the for loop goes on to the
\* next batch, or the while loop looks at the files again
BatchDone(d) ==
    IF d.i + batch_size < Len(d.remaining_tickers)
    THEN [d EXCEPT !.pc = "for", !.i = @ + batch_size, !.valid_tickers = <<>>, !.attempt = 0]
    ELSE [d EXCEPT !.pc = "while", !.i = 0, !.valid_tickers = <<>>, !.attempt = 0]

\* lines 259-264: while True, leaving only when every ticker of the list is
\* in existing_files
DL_While ==
    /\ dl.pc = "while"
    /\ LET NotExisting(t) == t \notin dl.existing_files
           remaining_tickers == SelectSeq(dl.tickers, NotExisting)
       IN  dl' = IF remaining_tickers = <<>>
                 THEN [dl EXCEPT !.pc = "done", !.remaining_tickers = <<>>]
                 ELSE [dl EXCEPT !.pc = "for", !.i = 0,
                                 !.remaining_tickers = remaining_tickers]
    /\ OnlyDownload

\* lines 266-269 and 138-147: the next batch and its filter; an empty
\* valid_tickers returns at once
DL_Batch ==
    /\ dl.pc = "for"
    /\ \E expired \in SUBSET dl.rate_limit_times :
          LET batch == SubSeq(dl.remaining_tickers, dl.i + 1,
                              Min2(Len(dl.remaining_tickers), dl.i + batch_size))
              Valid(t) == /\ \A suffix \in ExcludedSuffixes : ~endswith(upper(t), suffix)
                          /\ upper(t) \notin dl.existing_files
                          /\ upper(t) \notin dl.rate_limit_times \ expired
              kept == SelectSeq(batch, Valid)
              valid_tickers == [k \in 1..Len(kept) |-> upper(kept[k])]
          IN  dl' = IF valid_tickers = <<>>
                    THEN BatchDone([dl EXCEPT !.rate_limit_times = @ \ expired])
                    ELSE [dl EXCEPT !.pc = "attempts", !.attempt = 0,
                                    !.rate_limit_times = @ \ expired,
                                    !.valid_tickers = valid_tickers]
    /\ OnlyDownload

\* lines 153-179: one attempt of the bulk download; after max_retries
\* attempts without data every ticker of the batch is recorded as failed
DL_Attempt ==
    /\ dl.pc = "attempts"
    /\ \E answer \in {"data", "too many requests", "error"} :
          LET limited == [dl EXCEPT
                  !.rate_limit_count =
                      IF @ + 1 >= max_rate_limit_count THEN 0 ELSE @ + 1,
                  !.rate_limit_times = @ \cup Range(dl.valid_tickers),
                  !.failed_tickers = Failed(@, dl.valid_tickers)]
              after == IF answer = "too many requests" THEN limited ELSE dl
          IN  dl' = IF answer = "data" THEN [dl EXCEPT !.pc = "store"]
                    ELSE IF dl.attempt + 1 < max_retries
                    THEN [after EXCEPT !.attempt = @ + 1]
                    ELSE BatchDone([after EXCEPT
                                       !.failed_tickers = Failed(@, dl.valid_tickers)])
    /\ OnlyDownload

\* lines 181-241: the data of each ticker of the batch is written to its
\* file, or the ticker is recorded as failed (no data, too few rows, missing
\* columns, a write that fails)
DL_Store ==
    /\ dl.pc = "store"
    /\ \E written \in SUBSET Range(dl.valid_tickers) :
          LET NotWritten(t) == t \notin written
              failed == Failed(dl.failed_tickers, SelectSeq(dl.valid_tickers, NotWritten))
          IN  dl' = BatchDone([dl EXCEPT
                        !.existing_files = @ \cup written,
                        !.failed_tickers =
                            [t \in DOMAIN failed \ written |-> failed[t]]])
    /\ OnlyDownload

NextDownload ==
    \/ DL_While
    \/ DL_Batch
    \/ DL_Attempt
    \/ DL_Store

\* the interpreter keeps executing process_all as long as it has a next
\* statement
SpecDownload == InitDownload /\ [][NextDownload]_vars /\ WF_vars(NextDownload)

(***************************************************************************)
(* find_big_move on its own (lines 734-1050), called as evaluate_candidate *)
(* calls it (line 1208) with end_date the last bar of a short series, so   *)
(* that the window is the whole series.  A move series has `pre' bars      *)
(* closing at base0, then a rise from `base' to `top' at bar h: bar by bar *)
(* ("linear") or flat and in one bar at h ("spike"); bar dip (when         *)
(* dip >= 0) closes at dipto; after h the closes fall back.  Every third   *)
(* bar trades twice the volume when vol is "burst".  Dates are gap days    *)
(* apart.                                                                  *)
(***************************************************************************)
MoveTail == 6

MoveShapes ==
    {[pre |-> p, base0 |-> b0, base |-> 1000, h |-> h, top |-> t, dip |-> d,
      dipto |-> dt, shape |-> sh, vol |-> v, gap |-> g] :
        p \in {0, 4}, b0 \in {700, 1000}, h \in {3, 24, 36}, t \in {1300, 1500},
        d \in {-1, 9, 21}, dt \in {700, 900}, sh \in {"linear", "spike"},
        v \in {"even", "burst"}, g \in {1, 2}}

MoveClose(t, k) ==
    IF k < 0 THEN t.base0
    ELSE IF k = t.dip /\ k < t.h THEN t.dipto
    ELSE IF k < t.pre THEN t.base0
    ELSE IF k >= t.h THEN t.top - 40 * (k - t.h)
    ELSE IF t.shape = "spike" THEN t.base
    ELSE t.base + ((t.top - t.base) * (k - t.pre)) \div (t.h - t.pre)

MoveSeries(t) ==
    [k1 \in 1..(t.h + 1 + MoveTail) |->
        LET k == k1 - 1
            c == MoveClose(t, k)
            o == MoveClose(t, k - 1)
        IN  [date |-> t.gap * k, open |-> o,
             high |-> IF k = t.h THEN t.top ELSE Min2(Max2(o, c) + 5, t.top - 1),
             low |-> Min2(o, c) - 5, close |-> c,
             volume |-> IF t.vol = "burst" /\ k % 3 = 0 THEN 20 ELSE 10]]

InitMove ==
    /\ pc = "find_big_move"
    /\ df \in {MoveSeries(t) : t \in MoveShapes}
    /\ mv = [pc |-> "window", end_idx |-> Len(df) - 1,
             min_days |-> min_uptrend_days, min_daily_pct |-> min_daily_uptrend_pct]
    /\ ticker = None
    /\ data_cache = {}
    /\ df_columns = {}
    /\ breakout_candidates = <<>>
    /\ cand_pos = 1
    /\ details = None
    /\ all_valid_breakouts = <<>>
    /\ stats = InitialStats
    /\ last_pb = None
    /\ disk = EmptyDisk
    /\ scored_breakouts = <<>>
    /\ setups = <<>>
    /\ ret = None
    /\ wj = IdleWrite
    /\ run = IdleRun
    /\ dl = IdleDl
    /\ verbosity = 0
    /\ log = 0
    /\ io_env = IOChoices
    /\ outcomes = <<>>
    /\ gi = IdleTags

\* frame of the steps of find_big_move
OnlyMove ==
    UNCHANGED <<pc, ticker, df, data_cache, df_columns, breakout_candidates, cand_pos,
                details, all_valid_breakouts, stats, last_pb, disk, scored_breakouts,
                setups, ret, wj, run, dl, verbosity, log, io_env, outcomes, gi>>

\* lines 745-814: the window and its high; the early returns
MoveWindow ==
    /\ mv.pc = "window"
    /\ LET start_idx == Max2(0, mv.end_idx - max_lookback_days)
           high_loc == HighLoc(df, start_idx, mv.end_idx)
       IN  mv' = IF mv.end_idx - start_idx + 1 < mv.min_days \/ high_loc <= 3
                 THEN [pc |-> "returned", result |-> NotFound]
                 ELSE [mv EXCEPT !.pc = "segments"]
                      @@ [start_idx |-> start_idx, high_loc |-> high_loc]
    /\ OnlyMove

\* lines 825-947: the loop over check_indices, left at the first valid segment
MoveSegments ==
    /\ mv.pc = "segments"
    /\ mv' = [mv EXCEPT !.pc = "refine"]
             @@ [first_valid_idx |-> FirstValidIdx(df, mv.start_idx, mv.high_loc,
                                                   mv.min_days, mv.min_daily_pct)]
    /\ OnlyMove

\* lines 949-1050: the local minimum after the first valid point and the return
MoveReturn ==
    /\ mv.pc = "refine"
    /\ mv' = [mv EXCEPT !.pc = "returned"]
             @@ [result |-> BigMoveFrom(df, mv.start_idx, mv.high_loc,
                                        mv.first_valid_idx, mv.min_days)]
    /\ OnlyMove

NextMove ==
    \/ MoveWindow
    \/ MoveSegments
    \/ MoveReturn

SpecMove == InitMove /\ [][NextMove]_vars

(***************************************************************************)
(* generate_indicators on its own (lines 463-664).  indicator_scores, a    *)
(* dict, is the sequence of its items [ind, score] in insertion order.     *)
(* What the eleven detectors of lines 470-627 find in the bars up to the   *)
(* breakout is the input: each detector, in the order of the code, has     *)
(* either not fired or stored a score its formula can give (several of     *)
(* them are capped at 100); so is the volume test of lines 641-644.  The   *)
(* category is the caller's (lines 675-676 and 690).                       *)
(***************************************************************************)
Detectors ==
    <<[ind |-> "Higher Lows", score |-> 100],
      [ind |-> "Cup and Handle", score |-> 600],
      [ind |-> "Uptrending MAs", score |-> 100],
      [ind |-> "Resistance Break", score |-> 100],
      [ind |-> "Volume Surge", score |-> 100],
      [ind |-> "Volume Contraction", score |-> 66],
      [ind |-> "Tight Consolidation", score |-> 100],
      [ind |-> "MA Support", score |-> 80],
      [ind |-> "Above Key MAs", score |-> 80],
      [ind |-> "Low Volatility", score |-> 81],
      [ind |-> "Strong Close", score |-> 100]>>

\* the items the detectors of the set `fired' stored, in the order of the code
Detected(fired) == SelectSeq(Detectors, LAMBDA e : e.ind \in fired)

\* ind in indicator_scores
Has(scores, ind) == \E k \in 1..Len(scores) : scores[k].ind = ind

\* indicator_scores[ind] = score: a new key goes last, an old one keeps its place
Put(scores, ind, score) ==
    IF Has(scores, ind)
    THEN [k \in 1..Len(scores) |->
             IF scores[k].ind = ind THEN [ind |-> ind, score |-> score] ELSE scores[k]]
    ELSE Append(scores, [ind |-> ind, score |-> score])

\* indicator_scores.pop(ind, None) for every ind of the set
PopAll(scores, inds) == SelectSeq(scores, LAMBDA e : e.ind \notin inds)

\* line 637
BullishTags ==
    {"Volume Surge", "Uptrending MAs", "Strong Close", "Sector Leader", "Market Leader"}

\* the adjustments of lines 630-645 without the pop of line 638
AdjustedNoPop(scores, category, heavy_volume) ==
    LET leader == IF category >= 3
                  THEN IF Has(scores, "Above Key MAs") \/ Has(scores, "Strong Close")
                       THEN Put(scores, "Sector Leader", 60)
                       ELSE Put(scores, "Market Leader", 55)
                  ELSE scores
        weak == Put(leader, "Weak RS", 40)
    IN  IF category # 1 THEN leader
        ELSE IF heavy_volume THEN Put(weak, "Distribution", 35)
        ELSE weak

\* lines 630-645: the category-specific adjustments
Adjusted(scores, category, heavy_volume) ==
    LET leader == IF category >= 3
                  THEN IF Has(scores, "Above Key MAs") \/ Has(scores, "Strong Close")
                       THEN Put(scores, "Sector Leader", 60)
                       ELSE Put(scores, "Market Leader", 55)
                  ELSE scores
        weak == Put(PopAll(leader, BullishTags), "Weak RS", 40)
    IN  IF category # 1 THEN leader
        ELSE IF heavy_volume THEN Put(weak, "Distribution", 35)
        ELSE weak

\* lines 649-655
fallback_indicators ==
    <<[ind |-> "Support Level", score |-> 50],
      [ind |-> "Consolidation", score |-> 45],
      [ind |-> "Base Building", score |-> 40],
      [ind |-> "Buy Volume", score |-> 55],
      [ind |-> "Breakout Pattern", score |-> 48]>>

\* the fallback loop that never breaks: all five fallback tags are added
RECURSIVE AddAllFallbacks(_, _)
AddAllFallbacks(scores, k) ==
    IF k > Len(fallback_indicators) THEN scores
    ELSE AddAllFallbacks(IF Has(scores, fallback_indicators[k].ind) THEN scores
                         ELSE Append(scores, fallback_indicators[k]),
                         k + 1)

\* lines 656-660: the loop over fallback_indicators from item k on
RECURSIVE AddFallbacks(_, _)
AddFallbacks(scores, k) ==
    IF k > Len(fallback_indicators) THEN scores
    ELSE IF Has(scores, fallback_indicators[k].ind) THEN AddFallbacks(scores, k + 1)
    ELSE LET added == Append(scores, fallback_indicators[k])
         IN  IF Len(added) >= 3 THEN added ELSE AddFallbacks(added, k + 1)

\* lines 662-664: sorted(..., reverse=True) is stable; the first three names
TopThree(scores) ==
    LET sorted_indicators == SortDescBy(scores, "score")
    IN  [k \in 1..Min2(3, Len(sorted_indicators)) |-> sorted_indicators[k].ind]

InitTags ==
    /\ pc = "generate_indicators"
    /\ \E fired \in SUBSET {Detectors[k].ind : k \in 1..Len(Detectors)} :
       \E category \in 1..4 :
       \E heavy_volume \in BOOLEAN :
          gi = [pc |-> "adjust", category |-> category, heavy_volume |-> heavy_volume,
                indicator_scores |-> Detected(fired)]
    /\ df = None
    /\ ticker = None
    /\ data_cache = {}
    /\ df_columns = {}
    /\ breakout_candidates = <<>>
    /\ cand_pos = 1
    /\ details = None
    /\ all_valid_breakouts = <<>>
    /\ stats = InitialStats
    /\ last_pb = None
    /\ disk = EmptyDisk
    /\ scored_breakouts = <<>>
    /\ setups = <<>>
    /\ ret = None
    /\ wj = IdleWrite
    /\ run = IdleRun
    /\ dl = IdleDl
    /\ verbosity = 0
    /\ log = 0
    /\ io_env = IOChoices
    /\ outcomes = <<>>
    /\ mv = IdleMove

\* frame of the steps of generate_indicators
OnlyTags ==
    UNCHANGED <<pc, ticker, df, data_cache, df_columns, breakout_candidates, cand_pos,
                details, all_valid_breakouts, stats, last_pb, disk, scored_breakouts,
                setups, ret, wj, run, dl, verbosity, log, io_env, outcomes, mv>>

\* lines 630-645
TagsAdjust ==
    /\ gi.pc = "adjust"
    /\ gi' = [gi EXCEPT !.pc = "fallback",
                        !.indicator_scores = Adjusted(@, gi.category, gi.heavy_volume)]
    /\ OnlyTags

\* lines 647-660
TagsFallback ==
    /\ gi.pc = "fallback"
    /\ gi' = [gi EXCEPT !.pc = "sort",
                        !.indicator_scores =
                            IF Len(@) < 3 THEN AddFallbacks(@, 1) ELSE @]
    /\ OnlyTags

\* lines 662-664
TagsReturn ==
    /\ gi.pc = "sort"
    /\ gi' = [gi EXCEPT !.pc = "returned"] @@ [result |-> TopThree(gi.indicator_scores)]
    /\ OnlyTags

NextTags ==
    \/ TagsAdjust
    \/ TagsFallback
    \/ TagsReturn

SpecTags == InitTags /\ [][NextTags]_vars

(***************************************************************************)
(* The properties.                                                         *)
(***************************************************************************)

\* the selector has returned (pc "selected" in SpecSel, "return" and "done"
\* in the pipeline)
SelectorDone == pc \in {"selected", "return", "done"}

\* C1: any two episodes select_with_spacing returns have breakout dates more
\* than 2 * min_spacing_days apart, i.e. their windows
\* [breakout_date - spacing, breakout_date + spacing] do not overlap.
C1_SelectedApart ==
    SelectorDone =>
        \A i, j \in 1..Len(setups) :
            i # j => Abs(setups[i].breakout_date - setups[j].breakout_date)
                        > 2 * default_min_spacing_days

\* C1 happens: of three scored episodes two are returned, and the one left
\* out lies exactly 2 * min_spacing_days from a returned one
C1_Witness ==
    /\ pc = "selected"
    /\ Len(scored_breakouts) = 3
    /\ Len(setups) = 2
    /\ \E k \in 1..3 :
          /\ scored_breakouts[k][5] \notin Range(setups)
          /\ \E i \in 1..2 : Abs(setups[i].breakout_date - scored_breakouts[k][1])
                                = 2 * default_min_spacing_days

\* C2: quality_score is the only ranking key of the selector: an episode is
\* left out only if its window overlaps the window of a returned episode
\* whose quality_score is at least as high (so the best-scoring episode of a
\* ticker is always returned).
C2_ScoreIsTheRankingKey ==
    SelectorDone =>
        \A k \in 1..Len(scored_breakouts) :
            \/ scored_breakouts[k][5] \in Range(setups)
            \/ \E j \in 1..Len(scored_breakouts) :
                  /\ scored_breakouts[j][5] \in Range(setups)
                  /\ scored_breakouts[j][4] >= scored_breakouts[k][4]
                  /\ Abs(scored_breakouts[j][1] - scored_breakouts[k][1])
                        <= 2 * default_min_spacing_days

\* C3: what the pipeline of a ticker emits, the list identify_quality_breakouts
\* returns and the directories of validated episodes on disk, is exactly the
\* set of episodes the selector accepted.
C3_EmittedAreSelected ==
    pc \in {"return", "done"} =>
        /\ Range(all_valid_breakouts) = Range(setups)
        /\ {b.output_path : b \in Range(all_valid_breakouts)} \cap disk.dirs
              = {b.output_path : b \in Range(setups)}

\* C4: every accepted episode has uptrend start < swing high < breakout date,
\* and its recorded cross below the 20-day average lies after the breakout
\* bar or is the last bar of the series.
C4_EpisodeOrder ==
    \A k \in 1..Len(all_valid_breakouts) :
        /\ all_valid_breakouts[k].low_date < all_valid_breakouts[k].high_date
        /\ all_valid_breakouts[k].high_date < all_valid_breakouts[k].breakout_date
        /\ \/ all_valid_breakouts[k].cross_idx
                 > get_loc(df, all_valid_breakouts[k].breakout_date)
           \/ all_valid_breakouts[k].cross_idx = Len(df) - 1

\* C4 happens: the pipeline finished with an accepted episode whose cross
\* below the average was found before the end of the series
C4_Witness ==
    /\ pc = "done"
    /\ \E k \in 1..Len(all_valid_breakouts) :
          /\ all_valid_breakouts[k].cross_idx < Len(df) - 1
          /\ all_valid_breakouts[k].low_date >= min_date

\* bars of d in positions lo..hi whose low is more than pct percent under price
BarsBelow(d, lo, hi, price, pct) ==
    {k \in lo..hi : 100 * (price - iloc(d, k).low) > pct * price}

\* the consolidation of episode b in d keeps to the drop ceiling with its
\* tolerance, and the pullback reaches the floor
ConsolidationHolds(d, b, high_idx, breakout_idx) ==
    /\ Cardinality(BarsBelow(d, high_idx, breakout_idx, iloc(d, high_idx).high,
                             max_consolidation_drop)) <= max_exception_days
    /\ BarsBelow(d, high_idx, breakout_idx, iloc(d, high_idx).high,
                 exception_threshold) = {}
    /\ 100 * b.pullback_pct[1] >= min_pullback_pct * b.pullback_pct[2]

\* C5: in every accepted episode the lows between swing high and breakout
\* stay within max_consolidation_drop of the swing high's high, except that at
\* most max_exception_days bars may go lower and none lower than
\* exception_threshold; and pullback_pct is at least min_pullback_pct.
C5_ConsolidationDrop ==
    \A k \in 1..Len(all_valid_breakouts) :
        ConsolidationHolds(df, all_valid_breakouts[k],
                           get_loc(df, all_valid_breakouts[k].high_date),
                           get_loc(df, all_valid_breakouts[k].breakout_date))

\* the files of directory dir on the disk
FilesIn(dir) == {f \in disk.files : f.dir = dir}

\* C6: after process_breakout, either an episode was returned and its
\* directory holds verified D.json, after.json and points.json, or failure
\* was returned and neither the directory nor any file of it is on disk.
C6_AllOrNothing ==
    last_pb # None =>
        IF last_pb[1].returned
        THEN /\ last_pb[1].directory \in disk.dirs
             /\ \A n \in {"D.json", "after.json", "points.json"} :
                   \E f \in FilesIn(last_pb[1].directory) :
                       f.name = n /\ f.state = "valid"
        ELSE /\ last_pb[1].directory \notin disk.dirs
             /\ FilesIn(last_pb[1].directory) = {}

\* C7: a reader opening the destination at any moment of a write_json call
\* never finds partially written content.
C7_ReaderNeverSeesPartial ==
    wj.pc # "idle" => wj.seen \cap {"truncated", "partial"} = {}

\* C8: write_json returns True only when the destination exists, holds at
\* least 10 bytes and parses as JSON at the moment of the return.
C8_SuccessIsVerified ==
    (wj.pc = "done" /\ wj.ret = <<TRUE>>) =>
        /\ Exists(wj.dest)
        /\ SizeAtLeast10(wj.dest, wj.data)
        /\ ParsesAsJson(wj.dest)

\* C8 happens: a call that fell back to the direct write returned True
C8_Witness ==
    /\ wj.pc = "done"
    /\ wj.ret = <<TRUE>>
    /\ wj.attempt = 3
    /\ wj.dest = "complete"

\* more than 90% of the rows close above their open
Over90PctGreen(rows) ==
    Len(rows) > 0 /\ 10 * GreenCount(rows, 0, Len(rows) - 1) > 9 * Len(rows)

\* the ticker was rejected by the loader and produced nothing
RejectedByLoader ==
    /\ df = None
    /\ all_valid_breakouts = <<>>
    /\ disk = EmptyDisk
    /\ pc = "done" => ret = <<[success |-> FALSE, created_dirs |-> {}]>>

\* C9 as stated: a series of which more than 90% of the bars close above
\* their open is rejected by read_stock_data and yields no episode and no
\* directory.
C9_GreenSeriesRejected ==
    (pc \in {"identify", "candidates", "process", "return", "done"}
        /\ Over90PctGreen(RawData(ticker))) => RejectedByLoader

\* C9 as the loader does it: the series is rejected when more than 90% of the
\* bars left after the min_date filter and the removal of invalid bars close
\* above their open.
C9_GreenLoadedRowsRejected ==
    (pc \in {"identify", "candidates", "process", "return", "done"}
        /\ Over90PctGreen(ValidRows(AfterMinDate(RawData(ticker))))) => RejectedByLoader

\* C9 happens: a series long enough to be loaded, 92% of it closing above
\* the open, went through the pipeline
C9_Witness ==
    /\ pc = "done"
    /\ Len(ValidRows(AfterMinDate(RawData(ticker)))) >= 126
    /\ Over90PctGreen(ValidRows(AfterMinDate(RawData(ticker))))
    /\ df = None

\* C10: a loaded series has unique dates in strictly increasing order.
C10_DatesIncrease ==
    df # None => \A k \in 1..(Len(df) - 1) : df[k].date < df[k + 1].date

\* the bar keeps low <= {open, close} <= high, positive prices and a
\* non-negative volume
BarOk(r) ==
    /\ r.low <= r.open /\ r.open <= r.high
    /\ r.low <= r.close /\ r.close <= r.high
    /\ r.open > 0 /\ r.high > 0 /\ r.low > 0 /\ r.close > 0
    /\ r.volume >= 0

\* the OHLCV part of a loaded row
Bar(r) ==
    [date |-> r.date, open |-> r.open, high |-> r.high, low |-> r.low,
     close |-> r.close, volume |-> r.volume]

\* d is what the loader may return for the rows of a file dated from
\* min_date on: nothing when over 5% of them are invalid, else at least 126
\* bars, all of them valid bars of the file, no valid bar's date missing
CleanLoad(rows, d) ==
    /\ 100 * Cardinality({k \in 1..Len(rows) : ~BarOk(rows[k])}) > 5 * Len(rows)
          => d = None
    /\ d # None =>
          /\ Len(d) >= 126
          /\ \A k \in 1..Len(d) : BarOk(d[k])
          /\ {Bar(d[k]) : k \in 1..Len(d)} \subseteq {rows[k] : k \in 1..Len(rows)}
          /\ {rows[k].date : k \in {j \in 1..Len(rows) : BarOk(rows[j])}}
                = {d[k].date : k \in 1..Len(d)}

C12_ScoreInUnitRange ==
    \A k \in 1..Len(scored_breakouts) :
        0 <= scored_breakouts[k][4] /\ scored_breakouts[k][4] <= 100 * ScoreUnit

\* C12 happens: an episode whose breakout date is not in the index was
\* scored, and got 0
C12_Witness ==
    /\ pc = "scored_all"
    /\ ScoringFails(df, scored_breakouts[1][5])
    /\ scored_breakouts[1][4] = 0

\* the bucket of the change from open o to close c, in percent of o:
\* 1 up to -2.5, 2 above -2.5 up to 10, 3 above 10 up to 35, 4 above 35
Bucket(o, c) ==
    CASE 200 * (c - o) <= -5 * o -> 1
      [] 200 * (c - o) > -5 * o /\ 100 * (c - o) <= 10 * o -> 2
      [] 100 * (c - o) > 10 * o /\ 100 * (c - o) <= 35 * o -> 3
      [] 100 * (c - o) > 35 * o -> 4

\* C13: the performance category is the bucket (1, 2, 3 or 4) of the change
\* from the breakout bar's open to the close at the cross position (the last
\* bar when the position is past the end), a cutoff belonging to the lower
\* bucket; and every accepted episode carries the category so computed.
C13_CategoryIsBucket ==
    /\ pc = "categorised" =>
          details[1].category
             = Bucket(df[1].open, df[Min2(details[1].cross_idx, Len(df) - 1) + 1].close)
    /\ \A k \in 1..Len(all_valid_breakouts) :
          all_valid_breakouts[k].category
             = Bucket(iloc(df, get_loc(df, all_valid_breakouts[k].breakout_date)).open,
                      iloc(df, all_valid_breakouts[k].cross_idx).close)

\* C13 happens: the close at the cross is exactly 10% over the breakout open
\* and the category is 2
C13_Witness ==
    /\ pc = "categorised"
    /\ details[1].cross_idx = 1
    /\ 100 * (df[2].close - df[1].open) = 10 * df[1].open
    /\ details[1].category = 2

\* C18: once read_stock_data has returned a Series, the later stages leave it
\* as loaded: its columns stay the eight columns of the Loader (none added,
\* none removed) for as long as the ticker is processed.
C18_SeriesUnchanged ==
    df_columns # {} => df_columns = LoadedColumns

\* the gate of the scan on bar i of d, against bar i-1 and the 20 bars before i
Gate(d, i) ==
    /\ 252 <= i /\ i < Len(d) - 63
    /\ d[i + 1].high > d[i].high
    /\ d[i + 1].close > d[i].high
    /\ d[i + 1].volume > 2 * d[i].volume
    /\ 2 * 20 * d[i + 1].volume > 3 * SumCol(d, "volume", i - 20, i - 1)
    /\ 100 * (d[i + 1].high - d[i + 1].low) >= min_daily_range_pct * d[i + 1].open
    /\ \/ 100 * 20 * d[i + 1].close > 101 * d[i + 1].sma20
       \/ 100 * 50 * d[i + 1].close > 101 * d[i + 1].sma50

\* C20: a position is handed to the later stages only if it lies in
\* 252 <= i < len - 63 and passes the gate (higher high and close above the
\* previous high, volume over 2.0 times the previous volume and 1.5 times the
\* average of the 20 bars before, daily range at least min_daily_range_pct,
\* close more than 1% over the 20- or the 50-bar average); every position
\* under evaluation and every accepted episode passed it.
C20_CandidatesPassedGate ==
    /\ \A k \in 1..Len(breakout_candidates) : Gate(df, breakout_candidates[k])
    /\ details # None => Gate(df, get_loc(df, details[1].focus_date))
    /\ \A k \in 1..Len(all_valid_breakouts) :
          Gate(df, get_loc(df, all_valid_breakouts[k].breakout_date))

\* C20 happens: an episode was accepted from a series in which some position
\* of the range was held back by the gate
C20_Witness ==
    /\ Len(all_valid_breakouts) > 0
    /\ Len(breakout_candidates) < stats["total_dates"]
    /\ Gate(df, get_loc(df, all_valid_breakouts[1].breakout_date))

\* the tickers process_tickers has finished with
CountedTickers == DOMAIN run.dataset

C16_MainReturnsCode ==
    run.pc = "exited" =>
        /\ run.exit[1].raised = None
        /\ run.exit[1].returned = run.result
        /\ data_cache = {}
        /\ run.STATS = ZeroSTATS

\* C19: the cache holds nothing but the validated series of the ticker being
\* processed (a series the loader rejects is never in it), and once
\* process_ticker is over, by a return or by an exception, the cache has no
\* entry for its ticker.
C19_CacheHoldsOnlyCurrent ==
    /\ data_cache \subseteq {ticker}
    /\ data_cache # {} =>
          /\ df # None
          /\ Len(df) >= 126
          /\ \A k \in 1..Len(df) : BarOk(df[k])
    /\ pc \in {"done", "idle"} => data_cache = {}

\* C19 happens: a series was cached while its ticker was processed, and the
\* call ended by an exception
C19_Witness ==
    /\ pc = "done"
    /\ run.pc = "loop"
    /\ run.tickers_to_process[run.pos] \in run.raised
    /\ df # None
    /\ data_cache = {}

\* C15: process_all terminates for every ticker list: its loop is left even
\* when a ticker of the list can never be downloaded, be it that every
\* download fails or that the batch filter always excludes the ticker.
C15_ProcessAllTerminates == <>(dl.pc = "done")

FormsValidSegment(i) ==
    /\ mv.high_loc - i + 1 >= mv.min_days
    /\ ValidSegment(df, mv.start_idx + i, mv.start_idx + mv.high_loc,
                    mv.min_days, mv.min_daily_pct)

\* the loop of find_big_move is over and has found a valid start
MoveFound == "first_valid_idx" \in DOMAIN mv /\ mv.first_valid_idx # None

\* C21: the start point find_big_move stops at lies in the window before the
\* swing high, forms a valid segment, and no earlier start point of the window
\* does: the first valid segment wins, whatever a later start would gain.
C21_FirstValidWins ==
    MoveFound =>
        /\ mv.first_valid_idx[1] \in 0..(mv.high_loc - 1)
        /\ FormsValidSegment(mv.first_valid_idx[1])
        /\ \A j \in 0..(mv.first_valid_idx[1] - 1) : ~FormsValidSegment(j)

\* find_big_move has returned found although a later start point forms a valid
\* segment of a larger gain than the one it stopped at
C21_Witness ==
    /\ mv.pc = "returned"
    /\ MoveFound
    /\ mv.result.found
    /\ \E j \in (mv.first_valid_idx[1] + 1)..(mv.high_loc - 1) :
          /\ FormsValidSegment(j)
          /\ iloc(df, mv.start_idx + j).close
                < iloc(df, mv.start_idx + mv.first_valid_idx[1]).close

\* lines 872-887, the three quality sub-checks of the segment of rows s..h
ConsistentUptrend(d, s, h) ==
    /\ h > s
    /\ 10 * Cardinality({k \in (s + 1)..h : iloc(d, k).close > iloc(d, k - 1).close})
          >= 4 * (h - s)

NotJustSpike(d, s, h) ==
    /\ h > s
    /\ iloc(d, h).high > iloc(d, s).close
    /\ \A k \in (s + 1)..h :
          10 * (iloc(d, k).high - iloc(d, k - 1).high) * iloc(d, s).close
              <= 6 * (iloc(d, h).high - iloc(d, s).close) * iloc(d, k - 1).high

DecentVolume(d, s, h) ==
    4 * Cardinality({k \in s..h :
                        10 * (h - s + 1) * iloc(d, k).volume
                            > 12 * SumCol(d, "volume", s, h)})
        >= h - s + 1

QualityChecksPassed(d, s, h) ==
    (IF ConsistentUptrend(d, s, h) THEN 1 ELSE 0)
    + (IF NotJustSpike(d, s, h) THEN 1 ELSE 0)
    + (IF DecentVolume(d, s, h) THEN 1 ELSE 0)

\* the segment of rows s..h gains between min_big_move_pct and max_big_move_pct
\* percent from the close of s to the high of h
GainInRange(d, s, h) ==
    /\ min_big_move_pct * iloc(d, s).close <= 100 * (iloc(d, h).high - iloc(d, s).close)
    /\ 100 * (iloc(d, h).high - iloc(d, s).close) <= max_big_move_pct * iloc(d, s).close

\* C22: the segment find_big_move accepts has a total gain between
\* min_big_move_pct and max_big_move_pct, an average daily gain of at least
\* min_daily_uptrend_pct, a duration in the allowed day range, and passes at
\* least two of the three quality sub-checks.
C22_AcceptedSegmentIsValid ==
    MoveFound =>
        LET s == mv.start_idx + mv.first_valid_idx[1]
            h == mv.start_idx + mv.high_loc
            days == Max2(1, iloc(df, h).date - iloc(df, s).date)
        IN  /\ GainInRange(df, s, h)
            /\ 10000 * (iloc(df, h).high - iloc(df, s).close)
                  >= min_daily_uptrend_pct * iloc(df, s).close * days
            /\ min_uptrend_days <= days /\ days <= 90
            /\ QualityChecksPassed(df, s, h) >= 2

\* calendar days from bar i of the window to the swing high
DaysToHigh(i) ==
    iloc(df, mv.start_idx + mv.high_loc).date - iloc(df, mv.start_idx + i).date

\* the first bar carrying the lowest low among the bars from the first valid
\* start f to f + 20, none of them closer than min_days bars to the swing high
LowestLowAfter(f) ==
    IdxMin(df, "low", mv.start_idx + f,
           mv.start_idx + Max2(f, Min2(f + 20, mv.high_loc - mv.min_days)))
        - mv.start_idx

\* C23: the start find_big_move returns is the bar of the lowest low among the
\* bars from the first valid start f to at most f + 20 whenever that bar is at
\* least min_days before the swing high, and f otherwise; it is never earlier
\* than f and at least min_days before the swing high.
C23_StartIsLowestLow ==
    (mv.pc = "returned" /\ mv.result.found) =>
        LET f == mv.first_valid_idx[1]
            start == mv.result.start - mv.start_idx
        IN  /\ start = IF DaysToHigh(LowestLowAfter(f)) >= mv.min_days
                       THEN LowestLowAfter(f) ELSE f
            /\ start >= f
            /\ DaysToHigh(start) >= mv.min_days

\* C29: when find_big_move reports found, the total_gain_pct it returns is the
\* gain from the close at the returned uptrend_start_date to the high at the
\* returned swing_high_date, and that gain lies between min_big_move_pct and
\* max_big_move_pct.
C29_GainIsOfReturnedSegment ==
    (mv.pc = "returned" /\ mv.result.found) =>
        LET start_price == iloc(df, mv.result.start).close
            end_price == iloc(df, mv.result.high).high
        IN  /\ mv.result.gain * start_price = (end_price - start_price) * mv.result.base
            /\ GainInRange(df, mv.result.start, mv.result.high)

\* the lowest low of the bars min_pullback_days to max_pullback_days after the
\* swing high that are not after the breakout
LowInsideSpan(d, high_idx, breakout_idx) ==
    MinCol(d, "low", high_idx + min_pullback_days,
           Min2(high_idx + max_pullback_days, breakout_idx))

\* C24: the pullback low of an approved candidate lies after the swing high
\* and not after the breakout, between min_pullback_days and
\* max_pullback_days bars after the swing high; the bars up to the breakout
\* alone give the required pullback, and the pullback_pct of an episode is
\* computed from them.
C24_PullbackInsideSpan ==
    /\ (details # None /\ details[1].ok) =>
          LET det == details[1]
              h == get_loc(df, det.high_date)
              b == get_loc(df, det.focus_date)
              l == get_loc(df, det.low_date)
          IN  /\ det.high_date < det.low_date
              /\ det.low_date <= det.focus_date
              /\ l - h \in min_pullback_days..max_pullback_days
              /\ 100 * (iloc(df, h).high - LowInsideSpan(df, h, b))
                    >= min_pullback_pct * iloc(df, h).high
    /\ \A k \in 1..Len(all_valid_breakouts) :
          LET e == all_valid_breakouts[k]
              h == get_loc(df, e.high_date)
              b == get_loc(df, e.breakout_date)
          IN  e.pullback_pct
                  = <<iloc(df, h).high - LowInsideSpan(df, h, b), iloc(df, h).high>>

\* the observed maximum drawdown of an episode, in hundredths: the lowest low
\* from the swing high to the breakout against the high of the swing high
ObservedDrop(d, breakout) ==
    LET high_idx == get_loc(d, breakout.high_date)
        idx == get_loc(d, breakout.breakout_date)
        high_price == iloc(d, high_idx).high
    IN  (100 * (high_price - MinCol(d, "low", high_idx, idx))) \div high_price

\* C25: the quality_score of a scored episode is the weighted sum
\* 0.60 * tightness + 0.15 * pullback + 0.10 * duration + 0.15 * gain in which
\* tightness is 1 minus the episode's own observed maximum drawdown divided by
\* max_consolidation_drop (less 10% per exception day), so that a smaller
\* observed drawdown gives a higher score.
C25_ScoreUsesObservedDrop ==
    \A k \in 1..Len(scored_breakouts) :
        LET breakout == scored_breakouts[k][5]
        IN  ~ScoringFails(df, breakout) =>
                scored_breakouts[k][4]
                    = quality_score(df, [max_drop_pct |-> ObservedDrop(df, breakout)]
                                            @@ breakout)

\* the fixed order of the tags: the detectors in the order of the code, the
\* category adjustments, the fallback tags
TagOrder ==
    [k \in 1..Len(Detectors) |-> Detectors[k].ind]
    \o <<"Sector Leader", "Market Leader", "Weak RS", "Distribution">>
    \o [k \in 1..Len(fallback_indicators) |-> fallback_indicators[k].ind]

TagRank(ind) == CHOOSE k \in 1..Len(TagOrder) : TagOrder[k] = ind

FallbackTags == {fallback_indicators[k].ind : k \in 1..Len(fallback_indicators)}

\* entry a of indicator_scores goes before entry b: a higher score, or the same
\* score and an earlier place in the fixed order
TagBefore(a, b) ==
    \/ a.score > b.score
    \/ a.score = b.score /\ TagRank(a.ind) < TagRank(b.ind)

\* C26: generate_indicators returns exactly 3 distinct tags, the 3 first
\* entries of indicator_scores by descending score, equal scores in the fixed
\* order of the tags; the fallback tags among the entries are the first ones
\* of the fallback list, as many as the other entries leave missing to 3.
C26_TopThreeTags ==
    gi.pc = "returned" =>
        LET scores == gi.indicator_scores
            Entry(ind) == CHOOSE e \in Range(scores) : e.ind = ind
            others == {e \in Range(scores) : e.ind \notin FallbackTags}
            missing == Max2(0, 3 - Cardinality(others))
        IN  /\ Len(gi.result) = 3
            /\ Cardinality(Range(gi.result)) = 3
            /\ \A k \in 1..3 : Has(scores, gi.result[k])
            /\ \A i, j \in 1..3 :
                  i < j => TagBefore(Entry(gi.result[i]), Entry(gi.result[j]))
            /\ \A e \in Range(scores) :
                  e.ind \notin Range(gi.result) => TagBefore(Entry(gi.result[3]), e)
            /\ {e \in Range(scores) : e.ind \in FallbackTags}
                  = {fallback_indicators[k] : k \in 1..missing}

\* generate_indicators has returned three tags of one score and left out a
\* fourth tag of that score, which comes later in the fixed order
C26_Witness ==
    /\ gi.pc = "returned"
    /\ \A k \in 1..3 : [ind |-> gi.result[k], score |-> 100] \in Range(gi.indicator_scores)
    /\ \E e \in Range(gi.indicator_scores) :
          /\ e.ind \notin Range(gi.result)
          /\ e.score = 100
          /\ TagRank(e.ind) > TagRank(gi.result[3])

LeaderTags == {"Sector Leader", "Market Leader"}

\* the entries of indicator_scores that a detector stored
DetectorEntries(scores) ==
    {e \in Range(scores) : e.ind \in {Detectors[k].ind : k \in 1..Len(Detectors)}}

\* C27 as stated: the list emitted for a category-1 episode contains "Weak RS"
\* and no bullish tag, the list emitted for a category 3 or 4 episode contains
\* a leader tag.
C27_CategoryTagsEmitted ==
    gi.pc = "returned" =>
        /\ gi.category = 1 =>
              /\ "Weak RS" \in Range(gi.result)
              /\ Range(gi.result) \cap BullishTags = {}
        /\ gi.category >= 3 => Range(gi.result) \cap LeaderTags # {}

\* C27, amended: for a category-1 episode no bullish tag is emitted and
\* "Weak RS" is among the scored tags, emitted exactly when at most two
\* detector tags are left; for a category 3 or 4 episode one leader tag is
\* among the scored tags, emitted exactly when at most two detectors fired.
C27_CategoryTagsScored ==
    gi.pc = "returned" =>
        LET detected == Cardinality(DetectorEntries(gi.indicator_scores))
        IN  /\ gi.category = 1 =>
                  /\ Range(gi.result) \cap BullishTags = {}
                  /\ Has(gi.indicator_scores, "Weak RS")
                  /\ "Weak RS" \in Range(gi.result) <=> detected <= 2
            /\ gi.category >= 3 =>
                  /\ \E ind \in LeaderTags :
                        {e.ind : e \in Range(gi.indicator_scores)} \cap LeaderTags = {ind}
                  /\ Range(gi.result) \cap LeaderTags # {} <=> detected <= 2

\* a category-1 call in which three detector tags remain after the bullish
\* ones are removed: "Weak RS" is scored and not emitted
C27_Witness ==
    /\ gi.pc = "returned"
    /\ gi.category = 1
    /\ Has(gi.indicator_scores, "Weak RS")
    /\ "Weak RS" \notin Range(gi.result)
    /\ Cardinality(DetectorEntries(gi.indicator_scores)) = 3

\* the date of the candidate evaluate_candidate is called on, or was last
\* called on
CandidateDate(k) == iloc(df, breakout_candidates[k]).date

\* C28: at every step of the candidate loop the validated episodes are in
\* increasing order of breakout date with no two of them fewer than
\* max(3, spacing_days // 2) days apart; an approved candidate is that far
\* from every validated episode, and validated episodes are never dropped, so
\* of two near-duplicates the earlier one is kept.
C28_NoNearDuplicates ==
    /\ \A i, j \in 1..Len(all_valid_breakouts) :
          i < j => all_valid_breakouts[j].breakout_date
                      - all_valid_breakouts[i].breakout_date
                      >= Max2(3, spacing_days \div 2)
    /\ (pc = "process" /\ details # None) =>
          \A k \in 1..Len(all_valid_breakouts) :
              details[1].focus_date - all_valid_breakouts[k].breakout_date
                  >= Max2(3, spacing_days \div 2)

\* a candidate fewer than max(3, spacing_days // 2) days after a validated
\* episode has been rejected as a duplicate, the earlier episode being kept
C28_Witness ==
    /\ pc = "candidates"
    /\ cand_pos = 3
    /\ stats["duplicate_filter"] = 1
    /\ Len(all_valid_breakouts) = 1
    /\ CandidateDate(2) - all_valid_breakouts[1].breakout_date
          \in 1..(Max2(3, spacing_days \div 2) - 1)

\* the scanned dates the counters account for
CountedDates ==
    stats["initial_filter"] + stats["green_candle_filter"] + stats["big_move_filter"]
    + stats["time_filter"] + stats["price_range_filter"] + stats["pattern_quality_filter"]
    + stats["pullback_filter"] + stats["duplicate_filter"] + stats["integrity_fail"]
    + stats["category1_found"] + stats["category2_found"] + stats["category3_found"]
    + stats["category4_found"]

\* the candidates the loop of line 1939 has not finished with
PendingCandidates ==
    IF pc \in {"candidates", "process"}
    THEN Len(breakout_candidates) - cand_pos + 1
    ELSE 0

\* C30: every scanned date is counted exactly once: total_dates is the sum of
\* the rejection counters, integrity_fail and the category counters, plus,
\* while the candidate loop runs, the candidates it has not finished with;
\* so when identify_quality_breakouts completes the sum is total_dates.
C30_EveryDateCountedOnce ==
    stats["total_dates"] = CountedDates + PendingCandidates

\* identify_quality_breakouts has completed on a series in which the scan, a
\* filter of evaluate_candidate and a validated episode each counted a date
C30_Witness ==
    /\ pc = "done"
    /\ stats["total_dates"] > 0
    /\ stats["initial_filter"] > 0
    /\ stats["duplicate_filter"] > 0
    /\ stats["category2_found"] > 0

====
